---- MODULE Spec2Model ----
(***************************************************************************)
(* The three StateManager classes of the repository (flappy_birds,         *)
(* text_adventure, zelda_2d): a current state, a previous state, a history *)
(* of state changes, a table of valid transitions and, per state, a list   *)
(* of enter callbacks and a list of exit callbacks.                        *)
(*                                                                         *)
(* One behaviour follows one manager: Init picks the game whose class is   *)
(* constructed, and every operation of that class is one action.  The      *)
(* operations are written as operators from a manager (a record of the     *)
(* object's fields) to an outcome: the manager after the call, the value   *)
(* returned, whether an exception left the call, and the callbacks that    *)
(* were invoked, each with the current_state and previous_state it could   *)
(* read from the manager while it ran.                                     *)
(*                                                                         *)
(* time.time() is not modelled: a history record carries no timestamp.     *)
(***************************************************************************)
EXTENDS Naturals, Sequences, FiniteSets

\* ------------------------------------------------------------------ bounds
\* State changes (history appends) in one behaviour of Spec.
MaxChanges == 2
\* Callbacks registered in one manager of Spec, all lists together.
MaxCallbacks == 2
\* The same two bounds for SpecAnyInit, whose manager is constructed with any
\* initial state.
AnyInitMaxChanges == 1
AnyInitMaxCallbacks == 1
\* The same two bounds for SpecRemove, whose callbacks are also removed.
RemoveMaxChanges == 2
RemoveMaxCallbacks == 3
\* State changes and registrations in one behaviour of SpecReset.
ResetMaxChanges == 1
ResetMaxCallbacks == 2
\* State changes and registrations in one behaviour of SpecQueries.
QueryMaxChanges == 1
QueryMaxCallbacks == 1
\* State changes and registrations in one behaviour of SpecSideBySide.
SideBySideMaxChanges == 2
SideBySideMaxCallbacks == 2
\* State changes and loop iterations in one behaviour of SpecGame.
GameMaxChanges == 2
GameMaxIterations == 3
\* State changes and registrations in one behaviour of SpecFlappy.
FlappyMaxChanges == 3
FlappyMaxCallbacks == 2
\* State changes and registrations in one behaviour of SpecEdges.
EdgeMaxChanges == 3
EdgeMaxCallbacks == 1
\* State changes in one behaviour of SpecWalk.
WalkMaxChanges == 4
\* State changes and registrations in one behaviour of SpecReentry.
ReentryMaxChanges == 2
ReentryMaxCallbacks == 2
\* State changes and main-loop steps in one behaviour of SpecFlappyGame.
FlappyGameMaxChanges == 3
FlappyGameMaxIterations == 4
\* State changes in one behaviour of SpecLongHistory, which starts two
\* records below the history cap.
LongMaxChanges == 3

\* --------------------------------------------------------------- constants
\* Python's None (previous_state before the first change, from_state of the
\* first record, the return value of a call that returns nothing or raises).
NONE == "None"
\* Python's True and False as returned by a call.
True == "True"
False == "False"

FLAPPY == "flappy_birds"
TEXT == "text_adventure"
ZELDA == "zelda_2d"
Games == {FLAPPY, TEXT, ZELDA}

MENU == "menu"
PLAYING == "playing"
INVENTORY == "inventory"
PAUSED == "paused"
SAVING == "saving"
LOADING == "loading"
QUIT == "quit"
GAME_OVER == "game_over"
SETTINGS == "settings"

\* The members of each game's GameState enumeration (by value).
GameState(g) ==
    CASE g = TEXT -> {MENU, PLAYING, INVENTORY, PAUSED, SAVING, LOADING, QUIT}
      [] g = ZELDA -> {MENU, PLAYING, PAUSED, INVENTORY, GAME_OVER, QUIT}
      [] g = FLAPPY -> {MENU, PLAYING, PAUSED, GAME_OVER, SETTINGS}

\* self.valid_transitions, as built by each constructor: state -> list.
valid_transitions(g) ==
    CASE g = TEXT ->
           [s \in GameState(TEXT) |->
              CASE s = MENU -> <<PLAYING, LOADING, QUIT>>
                [] s = PLAYING -> <<INVENTORY, PAUSED, SAVING, MENU, QUIT>>
                [] s = INVENTORY -> <<PLAYING>>
                [] s = PAUSED -> <<PLAYING, MENU, QUIT>>
                [] s = SAVING -> <<PLAYING>>
                [] s = LOADING -> <<PLAYING, MENU>>
                [] s = QUIT -> <<>>]
      [] g = ZELDA ->
           [s \in GameState(ZELDA) |->
              CASE s = MENU -> <<PLAYING, QUIT>>
                [] s = PLAYING -> <<PAUSED, INVENTORY, GAME_OVER, MENU, QUIT>>
                [] s = PAUSED -> <<PLAYING, MENU, QUIT>>
                [] s = INVENTORY -> <<PLAYING>>
                [] s = GAME_OVER -> <<MENU, PLAYING>>
                [] s = QUIT -> <<>>]
      [] g = FLAPPY ->
           [s \in GameState(FLAPPY) |->
              CASE s = MENU -> <<PLAYING, SETTINGS>>
                [] s = PLAYING -> <<PAUSED, GAME_OVER, MENU>>
                [] s = PAUSED -> <<PLAYING, MENU>>
                [] s = GAME_OVER -> <<MENU, PLAYING>>
                [] s = SETTINGS -> <<MENU>>]

\* The callables a caller registers.  E and N return normally; X raises an
\* Exception each time it is called.  None of them calls the manager.
Callbacks == {"E", "N", "X"}
Raises(cb) == cb = "X"

\* The lists callbacks are registered in, in this model: the exit lists of
\* ExitCallbackStates and the enter lists of EnterCallbackStates.
ExitCallbackStates == {PLAYING}
EnterCallbackStates == {PAUSED, MENU}

\* History caps: text_adventure and zelda_2d cut to HistoryKeep records once
\* the list is longer than HistoryCap; flappy_birds drops the oldest entry
\* once the list is longer than FlappyHistoryCap.
HistoryCap == 100
HistoryKeep == 50
FlappyHistoryCap == 10

\* ----------------------------------------------------------------- helpers
Range(seq) == {seq[i] : i \in 1..Len(seq)}

\* Python's lst[-n:] for n > 0.
LastN(seq, n) ==
    IF Len(seq) <= n THEN seq ELSE SubSeq(seq, Len(seq) - n + 1, Len(seq))

\* One callback invocation: which callback, from which kind of list, and the
\* manager fields it can read while it runs.
Call(cb, kind, m) ==
    [cb |-> cb, kind |-> kind,
     current_state |-> m.current_state, previous_state |-> m.previous_state,
     history_len |-> Len(m.state_history)]

\* The first position of a raising callback in a list, 0 if there is none.
FirstRaise(cbs) ==
    IF \E i \in 1..Len(cbs) : Raises(cbs[i])
    THEN CHOOSE i \in 1..Len(cbs) :
            Raises(cbs[i]) /\ \A j \in 1..(i - 1) : ~Raises(cbs[j])
    ELSE 0

\* -------------------------------------------------------------- the state
VARIABLES
    game,             \* which game's StateManager this is
    current_state,    \* self.current_state
    previous_state,   \* self.previous_state
    state_history,    \* self.state_history
    enter_callbacks,  \* self.enter_callbacks
    exit_callbacks,   \* self.exit_callbacks
    transition_table, \* self.valid_transitions
    last,             \* the last call made on the manager and its outcome
    budget,           \* state changes and registrations left to the behaviour
    scope,            \* the callbacks the behaviour registers, and in which lists
    copies,           \* the other games' managers run side by side with this one
    owner             \* the Game object that owns the manager

vars == <<game, current_state, previous_state, state_history,
          enter_callbacks, exit_callbacks, transition_table, last, budget,
          scope, copies, owner>>

\* The manager object, as the record of its fields.
Self ==
    [current_state |-> current_state, previous_state |-> previous_state,
     state_history |-> state_history,
     enter_callbacks |-> enter_callbacks, exit_callbacks |-> exit_callbacks,
     valid_transitions |-> transition_table]

\* An outcome of a call: the manager after it, the value returned (NONE when
\* the call returns nothing or is left by an exception), whether an exception
\* left the call, and the callbacks invoked during it, in order.
Outcome(m, ret, raised, calls) ==
    [m |-> m, ret |-> ret, raised |-> raised, calls |-> calls]

\* ---------------------------------------------------------- text_adventure
\* A slip in can_transition_to: the table is looked up under the target.
text_can_transition_to_reversed(m, target_state) ==
    m.current_state \in Range(m.valid_transitions[target_state])

\* A slip in can_transition_to: MENU is accepted from every state.
text_can_transition_to_or_menu(m, target_state) ==
    \/ target_state = MENU
    \/ target_state \in Range(m.valid_transitions[m.current_state])

\* StateManager.can_transition_to
text_can_transition_to(m, target_state) ==
    target_state \in Range(m.valid_transitions[m.current_state])

\* A slip in _execute_callbacks: the try encloses the loop, so the first
\* Exception ends it.
text_execute_callbacks_try_outside(m, callbacks, kind) ==
    LET k == FirstRaise(callbacks)
        n == IF k = 0 THEN Len(callbacks) ELSE k
    IN [i \in 1..n |-> Call(callbacks[i], kind, m)]

\* StateManager._execute_callbacks: every callback of the list is called, an
\* Exception it raises is caught and printed.
text_execute_callbacks(m, callbacks, kind) ==
    [i \in 1..Len(callbacks) |-> Call(callbacks[i], kind, m)]

\* A slip in _record_state_change: the cut keeps the oldest records.
text_record_state_change_keeps_oldest(m, old_state, new_state) ==
    LET record == [from_state |-> old_state,
                   to_state |-> new_state,
                   transition_valid |->
                       old_state = NONE \/ text_can_transition_to(m, new_state)]
        appended == Append(m.state_history, record)
    IN [m EXCEPT !.state_history =
            IF Len(appended) > HistoryCap
            THEN SubSeq(appended, 1, HistoryKeep)
            ELSE appended]

\* StateManager._record_state_change: transition_valid is computed by
\* can_transition_to on the manager as it is when the record is made.
text_record_state_change(m, old_state, new_state) ==
    LET record == [from_state |-> old_state,
                   to_state |-> new_state,
                   transition_valid |->
                       old_state = NONE \/ text_can_transition_to(m, new_state)]
        appended == Append(m.state_history, record)
    IN [m EXCEPT !.state_history =
            IF Len(appended) > HistoryCap
            THEN LastN(appended, HistoryKeep)
            ELSE appended]

\* A slip in change_state: the state is set before the exit callbacks run.
text_change_state_sets_first(m, new_state) ==
    IF ~text_can_transition_to(m, new_state)
    THEN Outcome(m, False, FALSE, <<>>)
    ELSE LET old_state == m.current_state
             m1 == [m EXCEPT !.previous_state = old_state,
                             !.current_state = new_state]
             exits == text_execute_callbacks(m1, m1.exit_callbacks[old_state], "exit")
             m2 == text_record_state_change(m1, old_state, new_state)
             enters == text_execute_callbacks(m2, m2.enter_callbacks[new_state], "enter")
         IN Outcome(m2, True, FALSE, exits \o enters)

\* A slip in change_state: the rejected attempt is recorded in the history.
text_change_state_records_rejected(m, new_state) ==
    IF ~text_can_transition_to(m, new_state)
    THEN Outcome(text_record_state_change(m, m.current_state, new_state),
                 False, FALSE, <<>>)
    ELSE LET old_state == m.current_state
             exits == text_execute_callbacks(m, m.exit_callbacks[old_state], "exit")
             m1 == [m EXCEPT !.previous_state = old_state,
                             !.current_state = new_state]
             m2 == text_record_state_change(m1, old_state, new_state)
             enters == text_execute_callbacks(m2, m2.enter_callbacks[new_state], "enter")
         IN Outcome(m2, True, FALSE, exits \o enters)

\* StateManager.change_state
text_change_state(m, new_state) ==
    IF ~text_can_transition_to(m, new_state)
    THEN Outcome(m, False, FALSE, <<>>)
    ELSE LET old_state == m.current_state
             exits == text_execute_callbacks(m, m.exit_callbacks[old_state], "exit")
             m1 == [m EXCEPT !.previous_state = old_state,
                             !.current_state = new_state]
             m2 == text_record_state_change(m1, old_state, new_state)
             enters == text_execute_callbacks(m2, m2.enter_callbacks[new_state], "enter")
         IN Outcome(m2, True, FALSE, exits \o enters)

\* A slip in reset_to_menu: the reset goes through change_state, and so
\* through the transition table.
text_reset_to_menu_validated(m) ==
    LET r == text_change_state(m, MENU)
    IN Outcome(r.m, True, r.raised, r.calls)

\* A slip in reset_to_menu: the exit callbacks run in MENU too.
text_reset_to_menu_exits_always(m) ==
    LET old_state == m.current_state
        exits == text_execute_callbacks(m, m.exit_callbacks[old_state], "exit")
        m1 == [m EXCEPT !.previous_state = old_state, !.current_state = MENU]
        m2 == text_record_state_change(m1, old_state, MENU)
        enters == text_execute_callbacks(m2, m2.enter_callbacks[MENU], "enter")
    IN Outcome(m2, True, FALSE, exits \o enters)

\* StateManager.reset_to_menu
text_reset_to_menu(m) ==
    LET old_state == m.current_state
        exits == IF old_state # MENU
                 THEN text_execute_callbacks(m, m.exit_callbacks[old_state], "exit")
                 ELSE <<>>
        m1 == [m EXCEPT !.previous_state = old_state, !.current_state = MENU]
        m2 == text_record_state_change(m1, old_state, MENU)
        enters == text_execute_callbacks(m2, m2.enter_callbacks[MENU], "enter")
    IN Outcome(m2, True, FALSE, exits \o enters)

\* ---------------------------------------------------------------- zelda_2d
\* A slip in can_transition_to: staying in the current state is accepted.
zelda_can_transition_to_or_stay(m, target_state) ==
    \/ target_state = m.current_state
    \/ target_state \in Range(m.valid_transitions[m.current_state])

\* StateManager.can_transition_to
zelda_can_transition_to(m, target_state) ==
    target_state \in Range(m.valid_transitions[m.current_state])

\* StateManager._record_state_change
zelda_record_state_change(m, old_state, new_state) ==
    LET record == [from_state |-> old_state, to_state |-> new_state]
        appended == Append(m.state_history, record)
    IN [m EXCEPT !.state_history =
            IF Len(appended) > HistoryCap
            THEN LastN(appended, HistoryKeep)
            ELSE appended]

\* The two callback loops of change_state: each cb() sits in its own
\* try/except Exception: pass.
zelda_run_callbacks(m, callbacks, kind) ==
    [i \in 1..Len(callbacks) |-> Call(callbacks[i], kind, m)]

\* A slip in change_state: previous_state is not assigned.
zelda_change_state_keeps_previous(m, new_state) ==
    IF ~zelda_can_transition_to(m, new_state)
    THEN Outcome(m, False, FALSE, <<>>)
    ELSE LET old_state == m.current_state
             exits == zelda_run_callbacks(m, m.exit_callbacks[old_state], "exit")
             m1 == [m EXCEPT !.current_state = new_state]
             m2 == zelda_record_state_change(m1, old_state, new_state)
             enters == zelda_run_callbacks(m2, m2.enter_callbacks[new_state], "enter")
         IN Outcome(m2, True, FALSE, exits \o enters)

\* A slip in change_state: the accepted change is not recorded.
zelda_change_state_unrecorded(m, new_state) ==
    IF ~zelda_can_transition_to(m, new_state)
    THEN Outcome(m, False, FALSE, <<>>)
    ELSE LET old_state == m.current_state
             exits == zelda_run_callbacks(m, m.exit_callbacks[old_state], "exit")
             m1 == [m EXCEPT !.previous_state = old_state,
                             !.current_state = new_state]
             enters == zelda_run_callbacks(m1, m1.enter_callbacks[new_state], "enter")
         IN Outcome(m1, True, FALSE, exits \o enters)

\* StateManager.change_state
zelda_change_state(m, new_state) ==
    IF ~zelda_can_transition_to(m, new_state)
    THEN Outcome(m, False, FALSE, <<>>)
    ELSE LET old_state == m.current_state
             exits == zelda_run_callbacks(m, m.exit_callbacks[old_state], "exit")
             m1 == [m EXCEPT !.previous_state = old_state,
                             !.current_state = new_state]
             m2 == zelda_record_state_change(m1, old_state, new_state)
             enters == zelda_run_callbacks(m2, m2.enter_callbacks[new_state], "enter")
         IN Outcome(m2, True, FALSE, exits \o enters)

\* A slip in reset_to_menu: MENU is forced without a record in the history.
zelda_reset_to_menu_unrecorded(m) ==
    Outcome([m EXCEPT !.previous_state = m.current_state,
                      !.current_state = MENU],
            NONE, FALSE, <<>>)

\* StateManager.reset_to_menu: calls change_state(MENU), drops its result and
\* returns None.
zelda_reset_to_menu(m) ==
    LET r == zelda_change_state(m, MENU)
    IN Outcome(r.m, NONE, r.raised, r.calls)

\* ------------------------------------------------------------ flappy_birds
\* A slip in is_valid_transition: MENU is never a target.
flappy_is_valid_transition_forward(m, new_state) ==
    /\ new_state # MENU
    /\ \E i \in 1..Len(m.valid_transitions[m.current_state]) :
           m.valid_transitions[m.current_state][i] = new_state

\* StateManager.is_valid_transition
flappy_is_valid_transition(m, new_state) ==
    new_state \in Range(m.valid_transitions[m.current_state])

\* The two callback loops of change_state, "for callback in ...: callback()":
\* nothing catches, so the loop ends at the first callback that raises and
\* the exception goes on to the caller.
flappy_run_callbacks(m, callbacks, kind) ==
    LET k == FirstRaise(callbacks)
        n == IF k = 0 THEN Len(callbacks) ELSE k
    IN [calls |-> [i \in 1..n |-> Call(callbacks[i], kind, m)],
        raised |-> k # 0]

\* A slip in change_state: the newest entry is dropped at the cap.
flappy_change_state_drops_newest(m, new_state) ==
    IF ~flappy_is_valid_transition(m, new_state)
    THEN Outcome(m, False, FALSE, <<>>)
    ELSE LET exits == flappy_run_callbacks(m, m.exit_callbacks[m.current_state], "exit")
             appended == Append(m.state_history, new_state)
             m1 == [m EXCEPT !.previous_state = m.current_state,
                             !.current_state = new_state,
                             !.state_history =
                                 IF Len(appended) > FlappyHistoryCap
                                 THEN SubSeq(appended, 1, FlappyHistoryCap)
                                 ELSE appended]
             enters == flappy_run_callbacks(m1, m1.enter_callbacks[new_state], "enter")
         IN IF exits.raised
            THEN Outcome(m, NONE, TRUE, exits.calls)
            ELSE IF enters.raised
            THEN Outcome(m1, NONE, TRUE, exits.calls \o enters.calls)
            ELSE Outcome(m1, True, FALSE, exits.calls \o enters.calls)

\* StateManager.change_state
flappy_change_state(m, new_state) ==
    IF ~flappy_is_valid_transition(m, new_state)
    THEN Outcome(m, False, FALSE, <<>>)
    ELSE LET exits == flappy_run_callbacks(m, m.exit_callbacks[m.current_state], "exit")
             appended == Append(m.state_history, new_state)
             m1 == [m EXCEPT !.previous_state = m.current_state,
                             !.current_state = new_state,
                             !.state_history =
                                 IF Len(appended) > FlappyHistoryCap
                                 THEN Tail(appended)
                                 ELSE appended]
             enters == flappy_run_callbacks(m1, m1.enter_callbacks[new_state], "enter")
         IN IF exits.raised
            THEN Outcome(m, NONE, TRUE, exits.calls)
            ELSE IF enters.raised
            THEN Outcome(m1, NONE, TRUE, exits.calls \o enters.calls)
            ELSE Outcome(m1, True, FALSE, exits.calls \o enters.calls)

\* StateManager.go_back
flappy_go_back(m) ==
    IF m.previous_state # NONE /\ flappy_is_valid_transition(m, m.previous_state)
    THEN flappy_change_state(m, m.previous_state)
    ELSE Outcome(m, False, FALSE, <<>>)

\* The pygame events handle_common_events tells apart: a key-down of ESC, of
\* P or of another key, and an event of another type (which has no key).
K_ESCAPE == "K_ESCAPE"
K_p == "K_p"
K_SPACE == "K_SPACE"
KEYDOWN == "KEYDOWN"
KEYUP == "KEYUP"
Events ==
    {[type |-> KEYDOWN, key |-> k] : k \in {K_ESCAPE, K_p, K_SPACE}}
        \cup {[type |-> KEYUP, key |-> K_ESCAPE]}

\* StateManager.handle_common_events
flappy_handle_common_events(m, event) ==
    IF event.type # KEYDOWN
    THEN Outcome(m, False, FALSE, <<>>)
    ELSE IF event.key = K_ESCAPE
    THEN IF m.current_state = PLAYING
         THEN flappy_change_state(m, PAUSED)
         ELSE IF m.current_state = PAUSED
         THEN flappy_change_state(m, PLAYING)
         ELSE IF m.current_state \in {SETTINGS, GAME_OVER}
         THEN flappy_change_state(m, MENU)
         ELSE Outcome(m, False, FALSE, <<>>)
    ELSE IF event.key = K_p
    THEN IF m.current_state = PLAYING
         THEN flappy_change_state(m, PAUSED)
         ELSE IF m.current_state = PAUSED
         THEN flappy_change_state(m, PLAYING)
         ELSE Outcome(m, False, FALSE, <<>>)
    ELSE Outcome(m, False, FALSE, <<>>)

\* A slip in reset: MENU is reached through change_state, as zelda_2d does.
flappy_reset_through_change_state(m) ==
    LET r == flappy_change_state(m, MENU)
    IN Outcome(r.m, NONE, r.raised, r.calls)

\* A slip in reset: previous_state is left as it was.
flappy_reset_keeps_previous(m) ==
    Outcome([m EXCEPT !.current_state = MENU,
                      !.state_history = <<MENU>>],
            NONE, FALSE, <<>>)

\* StateManager.reset
flappy_reset(m) ==
    Outcome([m EXCEPT !.current_state = MENU,
                      !.previous_state = NONE,
                      !.state_history = <<MENU>>],
            NONE, FALSE, <<>>)

\* Python's lst.remove(x) for x in lst: the list without its first x.
RemoveFirst(seq, x) ==
    LET i == CHOOSE k \in 1..Len(seq) :
                 seq[k] = x /\ \A j \in 1..(k - 1) : seq[j] # x
    IN SubSeq(seq, 1, i - 1) \o SubSeq(seq, i + 1, Len(seq))

\* A slip for RemoveFirst: the last x is the one removed.
RemoveLast(seq, x) ==
    LET i == CHOOSE k \in 1..Len(seq) :
                 seq[k] = x /\ \A j \in (k + 1)..Len(seq) : seq[j] # x
    IN SubSeq(seq, 1, i - 1) \o SubSeq(seq, i + 1, Len(seq))

\* A slip in remove_callback: the last occurrence is removed.
text_remove_callback_last(m, state, callback, callback_type) ==
    LET callback_list == IF callback_type = "enter"
                         THEN m.enter_callbacks[state]
                         ELSE m.exit_callbacks[state]
    IN IF callback \in Range(callback_list)
       THEN Outcome(
              IF callback_type = "enter"
              THEN [m EXCEPT !.enter_callbacks[state] = RemoveLast(@, callback)]
              ELSE [m EXCEPT !.exit_callbacks[state] = RemoveLast(@, callback)],
              True, FALSE, <<>>)
       ELSE Outcome(m, False, FALSE, <<>>)

\* StateManager.remove_callback (text_adventure): callback_type "enter"
\* selects the enter list, any other string the exit list.
text_remove_callback(m, state, callback, callback_type) ==
    LET callback_list == IF callback_type = "enter"
                         THEN m.enter_callbacks[state]
                         ELSE m.exit_callbacks[state]
    IN IF callback \in Range(callback_list)
       THEN Outcome(
              IF callback_type = "enter"
              THEN [m EXCEPT !.enter_callbacks[state] = RemoveFirst(@, callback)]
              ELSE [m EXCEPT !.exit_callbacks[state] = RemoveFirst(@, callback)],
              True, FALSE, <<>>)
       ELSE Outcome(m, False, FALSE, <<>>)

\* ------------------------------------------------ registration, all games
\* A slip in add_enter_callback: the new callback is put in front.
add_enter_callback_in_front(m, state, callback) ==
    [m EXCEPT !.enter_callbacks[state] = <<callback>> \o @]

\* StateManager.add_enter_callback (the same one line in the three classes)
add_enter_callback(m, state, callback) ==
    [m EXCEPT !.enter_callbacks[state] = Append(@, callback)]

\* StateManager.add_exit_callback (the same one line in the three classes)
add_exit_callback(m, state, callback) ==
    [m EXCEPT !.exit_callbacks[state] = Append(@, callback)]

\* ------------------------------------------------------------ construction
\* A slip in __init__: the initial state is not recorded.
text_init_unrecorded(initial_state) ==
    [current_state |-> initial_state, previous_state |-> NONE,
     state_history |-> <<>>,
     enter_callbacks |-> [s \in GameState(TEXT) |-> <<>>],
     exit_callbacks |-> [s \in GameState(TEXT) |-> <<>>],
     valid_transitions |-> valid_transitions(TEXT)]

\* StateManager.__init__ of each game, with initial_state.
text_init(initial_state) ==
    text_record_state_change(
        [current_state |-> initial_state, previous_state |-> NONE,
         state_history |-> <<>>,
         enter_callbacks |-> [s \in GameState(TEXT) |-> <<>>],
         exit_callbacks |-> [s \in GameState(TEXT) |-> <<>>],
     valid_transitions |-> valid_transitions(TEXT)],
        NONE, initial_state)

zelda_init(initial_state) ==
    zelda_record_state_change(
        [current_state |-> initial_state, previous_state |-> NONE,
         state_history |-> <<>>,
         enter_callbacks |-> [s \in GameState(ZELDA) |-> <<>>],
         exit_callbacks |-> [s \in GameState(ZELDA) |-> <<>>],
     valid_transitions |-> valid_transitions(ZELDA)],
        NONE, initial_state)

flappy_init(initial_state) ==
    [current_state |-> initial_state, previous_state |-> NONE,
     state_history |-> <<initial_state>>,
     enter_callbacks |-> [s \in GameState(FLAPPY) |-> <<>>],
     exit_callbacks |-> [s \in GameState(FLAPPY) |-> <<>>],
     valid_transitions |-> valid_transitions(FLAPPY)]

\* ----------------------------------------------------------------- actions
\* The manager's fields become those of m.
Becomes(m) ==
    /\ current_state' = m.current_state
    /\ previous_state' = m.previous_state
    /\ state_history' = m.state_history
    /\ enter_callbacks' = m.enter_callbacks
    /\ exit_callbacks' = m.exit_callbacks
    /\ transition_table' = m.valid_transitions

\* A call op(target) made on the manager with outcome r.  A call that changes
\* the state is made only while the behaviour has state changes left.
Calls(op, target, r) ==
    LET changed == IF r.m.state_history # state_history THEN 1 ELSE 0
    IN /\ changed <= budget.changes
       /\ budget' = [budget EXCEPT !.changes = @ - changed]
       /\ Becomes(r.m)
       /\ last' = [op |-> op, target |-> target, callback |-> NONE,
                   callback_type |-> NONE, pre |-> Self,
                   ret |-> r.ret, raised |-> r.raised, calls |-> r.calls]
       /\ UNCHANGED <<game, scope, copies, owner>>

\* The manager as constructed by the game's StateManager(initial_state).
Constructed(g, initial_state) ==
    CASE g = TEXT -> text_init(initial_state)
      [] g = ZELDA -> zelda_init(initial_state)
      [] g = FLAPPY -> flappy_init(initial_state)

\* The callbacks and lists of Spec and SpecAnyInit.
DefaultScope ==
    [enter_states |-> EnterCallbackStates, exit_states |-> ExitCallbackStates,
     callbacks |-> Callbacks]

\* No other manager runs beside this one.
Alone == <<>>

\* The manager is used without a Game.
NoGame == NONE

\* The behaviour starts with the manager m, left by op(initial_state), with
\* the managers beside it and the Game it is owned by.
InitOwned(m, op, initial_state, changes, callbacks, registering, beside, by) ==
    /\ current_state = m.current_state
    /\ previous_state = m.previous_state
    /\ state_history = m.state_history
    /\ enter_callbacks = m.enter_callbacks
    /\ exit_callbacks = m.exit_callbacks
    /\ transition_table = m.valid_transitions
    /\ last = [op |-> op, target |-> initial_state,
               callback |-> NONE, callback_type |-> NONE, pre |-> m,
               ret |-> NONE, raised |-> FALSE, calls |-> <<>>]
    /\ budget = [changes |-> changes, callbacks |-> callbacks]
    /\ scope = registering
    /\ copies = beside
    /\ owner = by

\* The behaviour starts with the manager m and the managers beside it.
InitBeside(m, op, initial_state, changes, callbacks, registering, beside) ==
    InitOwned(m, op, initial_state, changes, callbacks, registering, beside,
              NoGame)

\* The behaviour starts with the manager m alone.
InitFrom(m, op, initial_state, changes, callbacks, registering) ==
    InitBeside(m, op, initial_state, changes, callbacks, registering, Alone)

InitWith(initial_state, changes, callbacks, registering) ==
    InitFrom(Constructed(game, initial_state), "__init__", initial_state,
             changes, callbacks, registering)

\* Every game constructs its manager as StateManager(GameState.MENU).
Init ==
    /\ game \in Games
    /\ InitWith(MENU, MaxChanges, MaxCallbacks, DefaultScope)

\* StateManager(initial_state) with any member of the enumeration.
InitAny ==
    /\ game \in Games
    /\ \E initial_state \in GameState(game) :
           InitWith(initial_state, AnyInitMaxChanges, AnyInitMaxCallbacks,
                    DefaultScope)

AddEnterCallback ==
    \E s \in scope.enter_states, cb \in scope.callbacks :
        /\ budget.callbacks > 0
        /\ Becomes(add_enter_callback(Self, s, cb))
        /\ last' = [op |-> "add_enter_callback", target |-> s,
                    callback |-> cb, callback_type |-> "enter", pre |-> Self,
                    ret |-> NONE, raised |-> FALSE, calls |-> <<>>]
        /\ budget' = [budget EXCEPT !.callbacks = @ - 1]
        /\ UNCHANGED <<game, scope, copies, owner>>

AddExitCallback ==
    \E s \in scope.exit_states, cb \in scope.callbacks :
        /\ budget.callbacks > 0
        /\ Becomes(add_exit_callback(Self, s, cb))
        /\ last' = [op |-> "add_exit_callback", target |-> s,
                    callback |-> cb, callback_type |-> "exit", pre |-> Self,
                    ret |-> NONE, raised |-> FALSE, calls |-> <<>>]
        /\ budget' = [budget EXCEPT !.callbacks = @ - 1]
        /\ UNCHANGED <<game, scope, copies, owner>>

TextChangeState ==
    /\ game = TEXT
    /\ \E t \in GameState(TEXT) :
           Calls("change_state", t, text_change_state(Self, t))

TextResetToMenu ==
    /\ game = TEXT
    /\ Calls("reset_to_menu", NONE, text_reset_to_menu(Self))

ZeldaChangeState ==
    /\ game = ZELDA
    /\ \E t \in GameState(ZELDA) :
           Calls("change_state", t, zelda_change_state(Self, t))

ZeldaResetToMenu ==
    /\ game = ZELDA
    /\ Calls("reset_to_menu", NONE, zelda_reset_to_menu(Self))

FlappyChangeState ==
    /\ game = FLAPPY
    /\ \E t \in GameState(FLAPPY) :
           Calls("change_state", t, flappy_change_state(Self, t))

\* remove_callback(state, callback, callback_type); a removal makes room for
\* one more registration.
TextRemoveCallback ==
    /\ game = TEXT
    /\ \E s \in scope.enter_states \cup scope.exit_states,
          cb \in scope.callbacks, type \in {"enter", "exit"} :
           LET r == text_remove_callback(Self, s, cb, type)
           IN /\ Becomes(r.m)
              /\ last' = [op |-> "remove_callback", target |-> s,
                          callback |-> cb, callback_type |-> type,
                          pre |-> Self,
                          ret |-> r.ret, raised |-> r.raised,
                          calls |-> r.calls]
              /\ budget' = [budget EXCEPT !.callbacks =
                                IF r.ret = True THEN @ + 1 ELSE @]
              /\ UNCHANGED <<game, scope, copies, owner>>

Next ==
    \/ AddEnterCallback
    \/ AddExitCallback
    \/ TextChangeState
    \/ TextResetToMenu
    \/ ZeldaChangeState
    \/ ZeldaResetToMenu
    \/ FlappyChangeState

Spec == Init /\ [][Next]_vars

SpecAnyInit == InitAny /\ [][Next]_vars

\* change_state of game g.
change_state(g, m, new_state) ==
    CASE g = TEXT -> text_change_state(m, new_state)
      [] g = ZELDA -> zelda_change_state(m, new_state)
      [] g = FLAPPY -> flappy_change_state(m, new_state)

\* The manager m of game g after n more calls of change_state that go round
\* MENU -> PLAYING -> PAUSED -> MENU, three edges of every table. The calls
\* are made one after the other; the run is split in halves only to keep the
\* evaluation shallow.
RoundTarget(s) ==
    CASE s = MENU -> PLAYING
      [] s = PLAYING -> PAUSED
      [] s = PAUSED -> MENU

RECURSIVE PlayedFrom(_, _, _)
PlayedFrom(g, m, n) ==
    IF n = 0
    THEN m
    ELSE IF n = 1
    THEN change_state(g, m, RoundTarget(m.current_state)).m
    ELSE CHOOSE played \in
             {PlayedFrom(g, half, n - (n \div 2)) :
                  half \in {PlayedFrom(g, m, n \div 2)}} :
             TRUE

Played(g, n) == PlayedFrom(g, Constructed(g, MENU), n)

\* A text_adventure or zelda_2d manager two records below the history cap,
\* no callback registered.
NoScope == [enter_states |-> {}, exit_states |-> {}, callbacks |-> {}]

InitLongHistory ==
    /\ game \in {TEXT, ZELDA}
    /\ InitFrom(Played(game, HistoryCap - 2), "played", MENU,
                LongMaxChanges, 0, NoScope)

NextLongHistory ==
    \/ TextChangeState
    \/ TextResetToMenu
    \/ ZeldaChangeState
    \/ ZeldaResetToMenu

SpecLongHistory == InitLongHistory /\ [][NextLongHistory]_vars

\* The text_adventure manager constructed in any state, with callbacks (one
\* of them raising) on leaving MENU and PLAYING and on entering MENU.
ResetScope ==
    [enter_states |-> {MENU}, exit_states |-> {MENU, PLAYING},
     callbacks |-> {"E", "X"}]

InitReset ==
    /\ game = TEXT
    /\ \E initial_state \in GameState(TEXT) :
           InitWith(initial_state, ResetMaxChanges, ResetMaxCallbacks,
                    ResetScope)

NextReset ==
    \/ AddEnterCallback
    \/ AddExitCallback
    \/ TextChangeState
    \/ TextResetToMenu

SpecReset == InitReset /\ [][NextReset]_vars

\* The text_adventure manager with callbacks registered in, and removed from,
\* the two lists of MENU.
RemoveScope ==
    [enter_states |-> {MENU}, exit_states |-> {MENU}, callbacks |-> {"E", "N"}]

InitRemove ==
    /\ game = TEXT
    /\ InitWith(MENU, RemoveMaxChanges, RemoveMaxCallbacks, RemoveScope)

NextRemove ==
    \/ AddEnterCallback
    \/ AddExitCallback
    \/ TextRemoveCallback
    \/ TextChangeState
    \/ TextResetToMenu

SpecRemove == InitRemove /\ [][NextRemove]_vars

\* ------------------------------------------------- the flappy_birds manager
\* The flappy_birds manager, fresh or one entry below its history cap, with
\* callbacks (one of them raising) on leaving PAUSED and on entering MENU.
FlappyScope ==
    [enter_states |-> {MENU}, exit_states |-> {PAUSED},
     callbacks |-> {"E", "X"}]

InitFlappy ==
    /\ game = FLAPPY
    /\ \E n \in {0, FlappyHistoryCap - 2} :
           InitFrom(Played(FLAPPY, n), IF n = 0 THEN "__init__" ELSE "played",
                    MENU, FlappyMaxChanges, FlappyMaxCallbacks, FlappyScope)

FlappyGoBack ==
    /\ game = FLAPPY
    /\ Calls("go_back", NONE, flappy_go_back(Self))

FlappyHandleCommonEvents ==
    /\ game = FLAPPY
    /\ \E event \in Events :
           Calls("handle_common_events", event,
                 flappy_handle_common_events(Self, event))

\* reset() gives back no state change to the behaviour: it shortens the
\* history.
FlappyReset ==
    /\ game = FLAPPY
    /\ LET r == flappy_reset(Self)
       IN /\ Becomes(r.m)
          /\ last' = [op |-> "reset", target |-> NONE, callback |-> NONE,
                      callback_type |-> NONE, pre |-> Self,
                      ret |-> r.ret, raised |-> r.raised, calls |-> r.calls]
          /\ UNCHANGED <<game, budget, scope, copies, owner>>

NextFlappy ==
    \/ AddEnterCallback
    \/ AddExitCallback
    \/ FlappyChangeState
    \/ FlappyGoBack
    \/ FlappyHandleCommonEvents
    \/ FlappyReset

SpecFlappy == InitFlappy /\ [][NextFlappy]_vars

\* ---------------------------------- every operation of zelda_2d, flappy_birds
\* The two managers whose every state change goes through change_state, each
\* one constructed in any state of its enumeration and driven by all of its
\* state-changing operations.
EdgeGames == {ZELDA, FLAPPY}

EdgeScope ==
    [enter_states |-> {MENU}, exit_states |-> {PLAYING}, callbacks |-> {"E", "X"}]

InitEdges ==
    /\ game \in EdgeGames
    /\ \E initial_state \in GameState(game) :
           InitWith(initial_state, EdgeMaxChanges, EdgeMaxCallbacks, EdgeScope)

NextEdges ==
    \/ AddEnterCallback
    \/ AddExitCallback
    \/ ZeldaChangeState
    \/ ZeldaResetToMenu
    \/ FlappyChangeState
    \/ FlappyGoBack
    \/ FlappyHandleCommonEvents
    \/ FlappyReset

SpecEdges == InitEdges /\ [][NextEdges]_vars

\* ------------------------------------------------------ walks over the tables
\* Each manager, constructed in MENU with no callbacks, taken along chains of
\* change_state calls.
InitWalk ==
    /\ game \in Games
    /\ InitWith(MENU, WalkMaxChanges, 0, NoScope)

NextWalk ==
    \/ TextChangeState
    \/ ZeldaChangeState
    \/ FlappyChangeState

SpecWalk == InitWalk /\ [][NextWalk]_vars

\* The states t for which change_state(t) returns True on the manager of game
\* g that is in state s.
Accepted(g, s) ==
    {t \in GameState(g) : change_state(g, Constructed(g, s), t).ret = True}

\* The states a chain of accepted change_state calls leads to from a state
\* of S (the states of S among them).
RECURSIVE ReachableFrom(_, _)
ReachableFrom(g, S) ==
    LET further == S \cup UNION {Accepted(g, s) : s \in S}
    IN IF further = S THEN S ELSE ReachableFrom(g, further)

\* ------------------------------------------- callbacks that call the manager
\* The callable R calls change_state(T) on the manager it is registered with,
\* for a state T fixed when R is made, unless it is itself running (it keeps
\* a flag for that, so a change_state made from within R runs R's body no
\* second time).  E returns at once.  Neither raises.
Reenters(cb) == cb = "R"

\* A callback list is run on the manager m, each callback seeing the manager
\* as the callbacks before it left it.  steps lists the assignments made to
\* current_state, in order, each with the value it replaced.
RECURSIVE run_callbacks_reentered(_, _, _, _, _)
run_callbacks_reentered(g, m, callbacks, kind, T) ==
    IF callbacks = <<>>
    THEN [m |-> m, calls |-> <<>>, steps |-> <<>>]
    ELSE LET cb == Head(callbacks)
             inner == IF Reenters(cb)
                      THEN change_state(g, m, T)
                      ELSE Outcome(m, NONE, FALSE, <<>>)
             step == IF inner.ret = True
                     THEN <<[from |-> m.current_state,
                             to |-> inner.m.current_state]>>
                     ELSE <<>>
             rest == run_callbacks_reentered(g, inner.m, Tail(callbacks), kind, T)
         IN [m |-> rest.m,
             calls |-> <<Call(cb, kind, m)>> \o inner.calls \o rest.calls,
             steps |-> step \o rest.steps]

\* The result of a change_state whose callbacks may call the manager.
Reentered(m, ret, calls, steps) ==
    [m |-> m, ret |-> ret, raised |-> FALSE, calls |-> calls, steps |-> steps]

\* text_adventure StateManager.change_state, R among the callbacks
text_change_state_reentered(m, new_state, T) ==
    IF ~text_can_transition_to(m, new_state)
    THEN Reentered(m, False, <<>>, <<>>)
    ELSE LET old_state == m.current_state
             exits == run_callbacks_reentered(TEXT, m, m.exit_callbacks[old_state], "exit", T)
             m1 == [exits.m EXCEPT !.previous_state = old_state,
                                   !.current_state = new_state]
             m2 == text_record_state_change(m1, old_state, new_state)
             enters == run_callbacks_reentered(TEXT, m2, m2.enter_callbacks[new_state], "enter", T)
         IN Reentered(enters.m, True, exits.calls \o enters.calls,
                      exits.steps
                          \o <<[from |-> exits.m.current_state, to |-> new_state]>>
                          \o enters.steps)

\* zelda_2d StateManager.change_state, R among the callbacks
zelda_change_state_reentered(m, new_state, T) ==
    IF ~zelda_can_transition_to(m, new_state)
    THEN Reentered(m, False, <<>>, <<>>)
    ELSE LET old_state == m.current_state
             exits == run_callbacks_reentered(ZELDA, m, m.exit_callbacks[old_state], "exit", T)
             m1 == [exits.m EXCEPT !.previous_state = old_state,
                                   !.current_state = new_state]
             m2 == zelda_record_state_change(m1, old_state, new_state)
             enters == run_callbacks_reentered(ZELDA, m2, m2.enter_callbacks[new_state], "enter", T)
         IN Reentered(enters.m, True, exits.calls \o enters.calls,
                      exits.steps
                          \o <<[from |-> exits.m.current_state, to |-> new_state]>>
                          \o enters.steps)

\* flappy_birds StateManager.change_state, R among the callbacks:
\* previous_state is read from self.current_state after the exit callbacks.
flappy_change_state_reentered(m, new_state, T) ==
    IF ~flappy_is_valid_transition(m, new_state)
    THEN Reentered(m, False, <<>>, <<>>)
    ELSE LET exits == run_callbacks_reentered(FLAPPY, m, m.exit_callbacks[m.current_state], "exit", T)
             appended == Append(exits.m.state_history, new_state)
             m1 == [exits.m EXCEPT !.previous_state = exits.m.current_state,
                                   !.current_state = new_state,
                                   !.state_history =
                                       IF Len(appended) > FlappyHistoryCap
                                       THEN Tail(appended)
                                       ELSE appended]
             enters == run_callbacks_reentered(FLAPPY, m1, m1.enter_callbacks[new_state], "enter", T)
         IN Reentered(enters.m, True, exits.calls \o enters.calls,
                      exits.steps
                          \o <<[from |-> exits.m.current_state, to |-> new_state]>>
                          \o enters.steps)

change_state_reentered(g, m, new_state, T) ==
    CASE g = TEXT -> text_change_state_reentered(m, new_state, T)
      [] g = ZELDA -> zelda_change_state_reentered(m, new_state, T)
      [] g = FLAPPY -> flappy_change_state_reentered(m, new_state, T)

\* R and E on leaving PLAYING and on entering PAUSED; R calls
\* change_state(T).
ReentryScope(T) ==
    [enter_states |-> {PAUSED}, exit_states |-> {PLAYING},
     callbacks |-> {"E", "R"}, reenters |-> T]

InitReentry ==
    /\ game \in Games
    /\ \E T \in GameState(game) :
           InitWith(MENU, ReentryMaxChanges, ReentryMaxCallbacks, ReentryScope(T))

ReenteredChangeState ==
    /\ game \in Games
    /\ \E t \in GameState(game) :
           Calls("change_state", t,
                 change_state_reentered(game, Self, t, scope.reenters))

NextReentry ==
    \/ AddEnterCallback
    \/ AddExitCallback
    \/ ReenteredChangeState

SpecReentry == InitReentry /\ [][NextReentry]_vars

\* ------------------------------------------------------------- side by side
\* The states that the three GameState enumerations share.
SharedStates == GameState(TEXT) \cap GameState(ZELDA) \cap GameState(FLAPPY)

\* The three tables agree on the edge from s to t: all list it or none does.
TablesAgree(s, t) ==
    \A g, h \in Games :
        (t \in Range(valid_transitions(g)[s]))
            = (t \in Range(valid_transitions(h)[s]))

\* The text_adventure manager with the zelda_2d and flappy_birds managers
\* beside it; every call is made on the three. One of the callbacks raises.
SideBySideScope ==
    [enter_states |-> {PAUSED}, exit_states |-> {PLAYING},
     callbacks |-> {"E", "X"}]

InitSideBySide ==
    /\ game = TEXT
    /\ InitBeside(Constructed(TEXT, MENU), "__init__", MENU,
                  SideBySideMaxChanges, SideBySideMaxCallbacks,
                  SideBySideScope,
                  [g \in {ZELDA, FLAPPY} |->
                       Outcome(Constructed(g, MENU), NONE, FALSE, <<>>)])

SideBySideAddEnterCallback ==
    \E s \in scope.enter_states, cb \in scope.callbacks :
        /\ budget.callbacks > 0
        /\ Becomes(add_enter_callback(Self, s, cb))
        /\ copies' = [g \in DOMAIN copies |->
                          Outcome(add_enter_callback(copies[g].m, s, cb),
                                  NONE, FALSE, <<>>)]
        /\ last' = [op |-> "add_enter_callback", target |-> s,
                    callback |-> cb, callback_type |-> "enter", pre |-> Self,
                    ret |-> NONE, raised |-> FALSE, calls |-> <<>>]
        /\ budget' = [budget EXCEPT !.callbacks = @ - 1]
        /\ UNCHANGED <<game, scope, owner>>

SideBySideAddExitCallback ==
    \E s \in scope.exit_states, cb \in scope.callbacks :
        /\ budget.callbacks > 0
        /\ Becomes(add_exit_callback(Self, s, cb))
        /\ copies' = [g \in DOMAIN copies |->
                          Outcome(add_exit_callback(copies[g].m, s, cb),
                                  NONE, FALSE, <<>>)]
        /\ last' = [op |-> "add_exit_callback", target |-> s,
                    callback |-> cb, callback_type |-> "exit", pre |-> Self,
                    ret |-> NONE, raised |-> FALSE, calls |-> <<>>]
        /\ budget' = [budget EXCEPT !.callbacks = @ - 1]
        /\ UNCHANGED <<game, scope, owner>>

\* change_state(t) called on the three managers, for a shared state t and
\* tables that agree on the edge to t from where each manager is.
SideBySideChangeState ==
    \E t \in SharedStates :
        LET r == change_state(game, Self, t)
            changed == IF r.m.state_history # state_history THEN 1 ELSE 0
        IN /\ TablesAgree(current_state, t)
           /\ \A g \in DOMAIN copies :
                  TablesAgree(copies[g].m.current_state, t)
           /\ changed <= budget.changes
           /\ budget' = [budget EXCEPT !.changes = @ - changed]
           /\ Becomes(r.m)
           /\ copies' = [g \in DOMAIN copies |->
                             change_state(g, copies[g].m, t)]
           /\ last' = [op |-> "change_state", target |-> t,
                       callback |-> NONE, callback_type |-> NONE,
                       pre |-> Self,
                       ret |-> r.ret, raised |-> r.raised, calls |-> r.calls]
           /\ UNCHANGED <<game, scope, owner>>

NextSideBySide ==
    \/ SideBySideAddEnterCallback
    \/ SideBySideAddExitCallback
    \/ SideBySideChangeState

SpecSideBySide == InitSideBySide /\ [][NextSideBySide]_vars

\* ----------------------------------------------------------- the Game objects
\* Game.__init__ of text_adventure and zelda_2d, as far as the main loop goes:
\* self.running, the state whose scene is self.current_scene (NONE for None),
\* the states that have a scene in self.scenes; with them the iterations the
\* main loop has begun and whether a KeyboardInterrupt has ended it.
NewGame ==
    [running |-> TRUE, current_scene |-> NONE, scenes |-> {},
     iterations |-> 0, interrupted |-> FALSE]

\* A slip in _on_enter_quit: running is left as it is.
text_on_enter_quit_keeps_running(o) == o

\* text_adventure Game._on_enter_quit
text_on_enter_quit(o) == [o EXCEPT !.running = FALSE]

\* zelda_2d Game.quit
zelda_quit(o) == [o EXCEPT !.running = FALSE]

\* zelda_2d Game._on_enter_state
zelda_on_enter_state(o, state) ==
    IF state = QUIT
    THEN zelda_quit(o)
    ELSE IF state \notin o.scenes
    THEN o
    ELSE [o EXCEPT !.current_scene = state]

\* ------------------------------------------------ flappy_birds: the entities
\* config/settings.py
SCREEN_WIDTH == 400
PIPE_WIDTH == 50
PIPE_SPEED == 180
BIRD_START_X == 50

\* Pipe.__init__, as far as the manager goes: the x position in pixels and
\* the two scoring flags.
Pipe(x) == [x |-> x, passed |-> FALSE, scored |-> FALSE]

\* Pipe.update, dt in milliseconds (Game.run: clock.tick(FPS) / 1000.0)
Pipe_update(pipe, dt) == [pipe EXCEPT !.x = @ - (PIPE_SPEED * dt) \div 1000]

\* Pipe.is_off_screen
Pipe_is_off_screen(pipe) == pipe.x + PIPE_WIDTH < 0

\* PipeManager.add_pipe()
PipeManager_add_pipe(pm) ==
    [pm EXCEPT !.pipes = Append(@, Pipe(pm.next_pipe_x)),
               !.next_pipe_x = pm.next_pipe_x + pm.pipe_spacing]

\* PipeManager.__init__()
PipeManager ==
    PipeManager_add_pipe([pipes |-> <<>>, pipe_spacing |-> 300,
                          next_pipe_x |-> SCREEN_WIDTH])

\* "while len(self.pipes) < 3: self.add_pipe()"
RECURSIVE PipeManager_keep_three(_)
PipeManager_keep_three(pm) ==
    IF Len(pm.pipes) < 3
    THEN PipeManager_keep_three(PipeManager_add_pipe(pm))
    ELSE pm

OnScreenOnly(pipes) == SelectSeq(pipes, LAMBDA pipe : ~Pipe_is_off_screen(pipe))

\* PipeManager.update: removed_count is taken from self.pipes after the
\* list has been filtered.
PipeManager_update(pm, dt) ==
    LET moved == [i \in 1..Len(pm.pipes) |-> Pipe_update(pm.pipes[i], dt)]
        pipes == OnScreenOnly(moved)
        removed_count == Len(pipes) - Len(OnScreenOnly(pipes))
    IN [pm |-> PipeManager_keep_three([pm EXCEPT !.pipes = pipes]),
        ret |-> removed_count]

\* PipeManager.check_scoring with Pipe.check_bird_passed
PipeManager_check_scoring(pm, bird_x) ==
    LET passes(pipe) == ~pipe.passed /\ bird_x > pipe.x + PIPE_WIDTH
        scores(pipe) == passes(pipe) /\ ~pipe.scored
    IN [pm |-> [pm EXCEPT !.pipes =
                   [i \in 1..Len(pm.pipes) |->
                       [pm.pipes[i] EXCEPT
                           !.passed = @ \/ passes(pm.pipes[i]),
                           !.scored = @ \/ scores(pm.pipes[i])]]],
        ret |-> Cardinality({i \in 1..Len(pm.pipes) : scores(pm.pipes[i])})]

\* Bird(): the bird is known here by the update and jump calls it has
\* received; where they have taken it is an input of GameScene.update.
Bird == [updates |-> 0, jumps |-> 0]

Bird_update(bird) == [bird EXCEPT !.updates = @ + 1]

Bird_jump(bird) == [bird EXCEPT !.jumps = @ + 1]

\* ------------------------------------------------- flappy_birds: the scenes
\* GameScene.__init__, with the calls of enter, exit, pause and resume the
\* scene has received during the Game method now running.
GameScene ==
    [is_active |-> FALSE, is_paused |-> FALSE, score |-> 0,
     bird |-> NONE, pipe_manager |-> NONE, received |-> <<>>]

\* GameScene.enter
GameScene_enter(scene) ==
    [scene EXCEPT !.is_active = TRUE, !.bird = Bird,
                  !.pipe_manager = PipeManager, !.score = 0,
                  !.is_paused = FALSE, !.received = Append(@, "enter")]

\* GameScene.exit
GameScene_exit(scene) ==
    [scene EXCEPT !.is_active = FALSE, !.received = Append(@, "exit")]

\* GameScene.pause
GameScene_pause(scene) ==
    [scene EXCEPT !.is_paused = TRUE, !.received = Append(@, "pause")]

\* What the bird has come to in this frame: it flies on, it touches the
\* ground or the ceiling, or it is inside a pipe.
Fates == {"flies", "edge", "pipe"}

\* GameScene.update, no power-up in use
GameScene_update(scene, dt, fate) ==
    IF scene.is_paused
    THEN [scene |-> scene, ret |-> NONE]
    ELSE LET flown == [scene EXCEPT !.bird = Bird_update(@)]
             piped == PipeManager_update(flown.pipe_manager, dt)
             scored == PipeManager_check_scoring(piped.pm, BIRD_START_X)
             after == [flown EXCEPT !.pipe_manager = scored.pm,
                                    !.score = @ + scored.ret]
         IN IF fate = "edge"
            THEN [scene |-> flown, ret |-> GAME_OVER]
            ELSE [scene |-> after,
                  ret |-> IF fate = "pipe" THEN GAME_OVER ELSE NONE]

\* GameScene.handle_event for a key-down
GameScene_handle_event(scene, key) ==
    IF key = K_SPACE /\ ~scene.is_paused
    THEN [scene |-> [scene EXCEPT !.bird = Bird_jump(@)], ret |-> TRUE]
    ELSE [scene |-> scene, ret |-> FALSE]

\* --------------------------------------------------- flappy_birds: the Game
\* The states that have a scene in Game.scenes (_initialize_scenes); a scene
\* is named by the state it is registered for.
FlappyScenes == {MENU, PLAYING, GAME_OVER}

\* scene.exit() for the scene of Game.scenes named by state
flappy_scene_exit(o, state) ==
    IF state = PLAYING
    THEN [o EXCEPT !.game_scene = GameScene_exit(@)]
    ELSE o

\* Game._on_exit_state
flappy_on_exit_state(o, state) ==
    IF o.current_scene # NONE
    THEN flappy_scene_exit(o, o.current_scene)
    ELSE o

\* scene.pause() for the scene named by state: only GameScene overrides
\* BaseScene.pause, which does nothing.
flappy_scene_pause(o, state) ==
    IF state = PLAYING
    THEN [o EXCEPT !.game_scene = GameScene_pause(@)]
    ELSE o

\* Game._change_to_scene
flappy_change_to_scene(o, state) ==
    IF state = PAUSED
    THEN IF o.current_scene # NONE
         THEN flappy_scene_pause(o, o.current_scene)
         ELSE o
    ELSE IF state \notin FlappyScenes
    THEN o
    ELSE LET left == IF o.current_scene # NONE /\ o.current_scene # state
                     THEN flappy_scene_exit(o, o.current_scene)
                     ELSE o
             shown == [left EXCEPT !.current_scene = state]
         IN IF state = PLAYING
            THEN [shown EXCEPT !.game_scene = GameScene_enter(@)]
            ELSE shown

\* Game._on_enter_state
flappy_on_enter_state(o, state) ==
    flappy_change_to_scene(
        IF state = GAME_OVER
        THEN [o EXCEPT !.final_score = o.game_scene.score]
        ELSE o,
        state)

\* What one invoked callback does to the Game. In text_adventure
\* _on_enter_playing and _on_enter_menu leave running alone; in zelda_2d the
\* callback registered for state s is "lambda s=state: ..._state(s)", named
\* here by the s it has bound, and _on_exit_state leaves running and
\* current_scene alone. flappy_birds registers the same two lambdas.
GameCallback(g, o, call) ==
    CASE g = TEXT ->
            IF call.cb = "_on_enter_quit" THEN text_on_enter_quit(o) ELSE o
      [] g = ZELDA ->
            IF call.kind = "enter" THEN zelda_on_enter_state(o, call.cb) ELSE o
      [] g = FLAPPY ->
            IF call.kind = "enter"
            THEN flappy_on_enter_state(o, call.cb)
            ELSE flappy_on_exit_state(o, call.cb)

\* The Game after the callbacks invoked by one call, in order.
RECURSIVE GameAfter(_, _, _)
GameAfter(g, o, calls) ==
    IF calls = <<>>
    THEN o
    ELSE GameAfter(g, GameCallback(g, o, Head(calls)), Tail(calls))

\* text_adventure Game.__init__: StateManager(GameState.MENU), then
\* _setup_state_callbacks.
text_game_manager ==
    add_enter_callback(
        add_enter_callback(
            add_enter_callback(text_init(MENU), PLAYING, "_on_enter_playing"),
            MENU, "_on_enter_menu"),
        QUIT, "_on_enter_quit")

\* zelda_2d Game.__init__: StateManager(GameState.MENU), then
\* _setup_state_callbacks, "for state in GameState" in definition order.
ZeldaGameStates == <<MENU, PLAYING, PAUSED, INVENTORY, GAME_OVER, QUIT>>

RECURSIVE zelda_setup_state_callbacks(_, _)
zelda_setup_state_callbacks(m, n) ==
    IF n = 0
    THEN m
    ELSE LET state == ZeldaGameStates[n]
         IN add_exit_callback(
                add_enter_callback(zelda_setup_state_callbacks(m, n - 1),
                                   state, state),
                state, state)

zelda_game_manager ==
    zelda_setup_state_callbacks(zelda_init(MENU), Len(ZeldaGameStates))

\* The lines typed at the prompt of text_adventure, by what they lead to, and
\* Ctrl-C at the prompt.
GameInputs == {"new", "quit", "other", "interrupt"}

\* The states a scene is registered for.
GameSceneStates == {MENU, PLAYING}

InitGame ==
    /\ game \in {TEXT, ZELDA}
    /\ InitOwned(IF game = TEXT THEN text_game_manager ELSE zelda_game_manager,
                 "__init__", MENU, GameMaxChanges, 0, NoScope, Alone, NewGame)

\* A call r made by the Game on its manager, as part of op(target), which
\* leaves the Game as o before the callbacks of r act on it.
GameCalls(op, target, r, o) ==
    LET changed == IF r.m.state_history # state_history THEN 1 ELSE 0
    IN /\ changed <= budget.changes
       /\ budget' = [budget EXCEPT !.changes = @ - changed]
       /\ Becomes(r.m)
       /\ last' = [op |-> op, target |-> target, callback |-> NONE,
                   callback_type |-> NONE, pre |-> Self,
                   ret |-> r.ret, raised |-> r.raised, calls |-> r.calls]
       /\ owner' = GameAfter(game, o, r.calls)
       /\ UNCHANGED <<game, scope, copies>>

\* text_adventure Game.start_game: one turn of "while self.running", that is
\* _game_loop_iteration with _handle_menu_input or _handle_game_input.
TextGameLoopIteration ==
    /\ game = TEXT
    /\ owner.running /\ ~owner.interrupted
    /\ owner.iterations < GameMaxIterations
    /\ \E input \in GameInputs :
           LET target ==
                   IF input = "quit" THEN QUIT
                   ELSE IF input = "new" /\ current_state = MENU THEN PLAYING
                   ELSE NONE
               r == IF target = NONE
                    THEN Outcome(Self, NONE, FALSE, <<>>)
                    ELSE text_change_state(Self, target)
           IN GameCalls("_game_loop_iteration", input, r,
                        [owner EXCEPT !.iterations = @ + 1,
                                      !.interrupted = (input = "interrupt")])

\* zelda_2d Game.register_scene
ZeldaRegisterScene ==
    /\ game = ZELDA
    /\ \E state \in GameSceneStates \ owner.scenes :
           /\ owner' = [owner EXCEPT !.scenes = @ \cup {state}]
           /\ last' = [op |-> "register_scene", target |-> state,
                       callback |-> NONE, callback_type |-> NONE,
                       pre |-> Self, ret |-> NONE, raised |-> FALSE,
                       calls |-> <<>>]
           /\ UNCHANGED <<game, current_state, previous_state, state_history,
                          enter_callbacks, exit_callbacks, transition_table,
                          budget, scope, copies>>

\* zelda_2d Game.change_state, called by the program that drives the Game.
ZeldaGameChangeState ==
    /\ game = ZELDA
    /\ \E t \in GameState(ZELDA) :
           GameCalls("Game.change_state", t, zelda_change_state(Self, t), owner)

\* zelda_2d Game.run: one turn of "while self.running", that is handle_events
\* (a pygame.QUIT event or none), update (the scene's update returns a state
\* or None) and render.
ZeldaRunIteration ==
    /\ game = ZELDA
    /\ owner.running
    /\ owner.iterations < GameMaxIterations
    /\ \E event \in {"none", "pygame.QUIT"},
          new_state \in GameState(ZELDA) \cup {NONE} :
           LET handled == IF event = "pygame.QUIT"
                          THEN zelda_quit(owner) ELSE owner
               r == IF /\ handled.current_scene # NONE
                       /\ new_state # NONE
                       /\ new_state # current_state
                    THEN zelda_change_state(Self, new_state)
                    ELSE Outcome(Self, NONE, FALSE, <<>>)
           IN GameCalls("run", event, r,
                        [handled EXCEPT !.iterations = @ + 1])

NextGame ==
    \/ TextGameLoopIteration
    \/ ZeldaRegisterScene
    \/ ZeldaGameChangeState
    \/ ZeldaRunIteration

SpecGame == InitGame /\ [][NextGame]_vars

\* ------------------------------------------------ the flappy_birds Game runs
\* Game.__init__: StateManager(GameState.MENU), the scenes, then
\* _setup_state_callbacks ("for state in GameState" in definition order) and
\* _change_to_scene(MENU). iterations counts the calls the main loop has
\* made.
FlappyGameStates == <<MENU, PLAYING, PAUSED, GAME_OVER, SETTINGS>>

RECURSIVE flappy_setup_state_callbacks(_, _)
flappy_setup_state_callbacks(m, n) ==
    IF n = 0
    THEN m
    ELSE LET state == FlappyGameStates[n]
         IN add_exit_callback(
                add_enter_callback(flappy_setup_state_callbacks(m, n - 1),
                                   state, state),
                state, state)

flappy_game_manager ==
    flappy_setup_state_callbacks(flappy_init(MENU), Len(FlappyGameStates))

FlappyNewGame ==
    flappy_change_to_scene(
        [running |-> TRUE, current_scene |-> NONE, game_scene |-> GameScene,
         final_score |-> 0, iterations |-> 0],
        MENU)

InitFlappyGame ==
    /\ game = FLAPPY
    /\ InitOwned(flappy_game_manager, "__init__", MENU, FlappyGameMaxChanges, 0, NoScope, Alone, FlappyNewGame)

\* The events of one pass of "for event in pygame.event.get()", and the
\* frame times of clock.tick in milliseconds.
K_q == "K_q"
QUIT_EVENT == [type |-> "QUIT", key |-> NONE]
GameEvents == Events \cup {[type |-> KEYDOWN, key |-> K_q], QUIT_EVENT}
Dts == {1000, 5000}

\* A call r made by the Game on its manager as part of op(target); o is the
\* Game as op has left it before the callbacks of r act on it.
FlappyGameCalls(op, target, r, o) ==
    LET changed == IF r.m.state_history # state_history THEN 1 ELSE 0
    IN /\ changed <= budget.changes
       /\ budget' = [budget EXCEPT !.changes = @ - changed]
       /\ Becomes(r.m)
       /\ last' = [op |-> op, target |-> target, callback |-> NONE,
                   callback_type |-> NONE, pre |-> Self,
                   ret |-> r.ret, raised |-> r.raised, calls |-> r.calls,
                   game_before |-> owner]
       /\ owner' = GameAfter(FLAPPY, o, r.calls)
       /\ UNCHANGED <<game, scope, copies>>

\* The Game as a method of the main loop finds it.
Called(o) ==
    [o EXCEPT !.iterations = @ + 1, !.game_scene.received = <<>>]

NoCall == Outcome(Self, NONE, FALSE, <<>>)

\* Game._handle_scene_state_transitions, the menus left at their first
\* option ("Start Game", "Play Again")
flappy_handle_scene_state_transitions(m, event) ==
    IF event.type # KEYDOWN THEN Outcome(m, NONE, FALSE, <<>>)
    ELSE IF m.current_state = MENU /\ event.key = K_SPACE
    THEN flappy_change_state(m, PLAYING)
    ELSE IF m.current_state = GAME_OVER /\ event.key = K_SPACE
    THEN flappy_change_state(m, PLAYING)
    ELSE IF m.current_state = PAUSED /\ event.key = K_q
    THEN flappy_change_state(m, MENU)
    ELSE Outcome(m, NONE, FALSE, <<>>)

\* Game.handle_events with one event in the queue
FlappyGameHandleEvents ==
    /\ game = FLAPPY
    /\ owner.running
    /\ owner.iterations < FlappyGameMaxIterations
    /\ \E event \in GameEvents :
           LET o == Called(owner)
               common == flappy_handle_common_events(Self, event)
               scene == IF o.current_scene = PLAYING /\ event.type = KEYDOWN
                        THEN GameScene_handle_event(o.game_scene, event.key)
                        ELSE [scene |-> o.game_scene, ret |-> FALSE]
           IN IF event = QUIT_EVENT
              THEN FlappyGameCalls("handle_events", event, NoCall,
                                   [o EXCEPT !.running = FALSE])
              ELSE IF common.ret = True
              THEN FlappyGameCalls("handle_events", event, common, o)
              ELSE IF o.current_scene = NONE \/ scene.ret
              THEN FlappyGameCalls("handle_events", event, NoCall,
                                   [o EXCEPT !.game_scene = scene.scene])
              ELSE FlappyGameCalls("handle_events", event,
                                   flappy_handle_scene_state_transitions(Self, event),
                                   [o EXCEPT !.game_scene = scene.scene])

\* Game.update
FlappyGameUpdate ==
    /\ game = FLAPPY
    /\ owner.running
    /\ owner.iterations < FlappyGameMaxIterations
    /\ \E dt \in Dts, fate \in Fates :
           LET o == Called(owner)
               scene == IF o.current_scene = PLAYING
                        THEN GameScene_update(o.game_scene, dt, fate)
                        ELSE [scene |-> o.game_scene, ret |-> NONE]
               r == IF /\ o.current_scene # NONE
                       /\ scene.ret # NONE
                       /\ scene.ret # current_state
                    THEN flappy_change_state(Self, scene.ret)
                    ELSE NoCall
           IN FlappyGameCalls("update", dt, r,
                              [o EXCEPT !.game_scene = scene.scene])

NextFlappyGame ==
    \/ FlappyGameHandleEvents
    \/ FlappyGameUpdate

SpecFlappyGame == InitFlappyGame /\ [][NextFlappyGame]_vars


\* ------------------------------------------------------------------ queries
\* A Python bool as returned by a call.
Bool(b) == IF b THEN True ELSE False

\* A list object in the caller's hands: its items and, when it is the very
\* list object that self.valid_transitions holds for a state, that state.
ListObject(items, kept_under) == [items |-> items, kept_under |-> kept_under]

\* A slip in get_valid_transitions: the list of the table itself is returned.
text_get_valid_transitions_same_list(m) ==
    Outcome(m, ListObject(m.valid_transitions[m.current_state],
                          m.current_state),
            FALSE, <<>>)

\* StateManager.get_valid_transitions: a list built anew from the values of
\* the states listed for current_state.
text_get_valid_transitions(m) ==
    LET listed == m.valid_transitions[m.current_state]
    IN Outcome(m, ListObject([i \in 1..Len(listed) |-> listed[i]], NONE),
               FALSE, <<>>)

\* StateManager.is_in_state
text_is_in_state(m, state) ==
    Outcome(m, Bool(m.current_state = state), FALSE, <<>>)

\* StateManager.get_state_name (the same one line in the three classes)
get_state_name(m) == Outcome(m, m.current_state, FALSE, <<>>)

\* StateManager.get_stats
text_get_stats(m) ==
    Outcome(m,
            [current_state |-> m.current_state,
             previous_state |-> m.previous_state,
             total_transitions |-> Len(m.state_history),
             valid_transitions |-> text_get_valid_transitions(m).ret,
             callback_counts |->
                 [s \in GameState(TEXT) |->
                      [enter |-> Len(m.enter_callbacks[s]),
                       exit |-> Len(m.exit_callbacks[s])]]],
            FALSE, <<>>)

\* StateManager.is_state
flappy_is_state(m, state) ==
    Outcome(m, Bool(m.current_state = state), FALSE, <<>>)

TextCanTransitionTo ==
    /\ game = TEXT
    /\ \E t \in GameState(TEXT) :
           Calls("can_transition_to", t,
                 Outcome(Self, Bool(text_can_transition_to(Self, t)),
                         FALSE, <<>>))

TextIsInState ==
    /\ game = TEXT
    /\ \E s \in GameState(TEXT) :
           Calls("is_in_state", s, text_is_in_state(Self, s))

TextGetValidTransitions ==
    /\ game = TEXT
    /\ Calls("get_valid_transitions", NONE, text_get_valid_transitions(Self))

TextGetStats ==
    /\ game = TEXT
    /\ Calls("get_stats", NONE, text_get_stats(Self))

ZeldaCanTransitionTo ==
    /\ game = ZELDA
    /\ \E t \in GameState(ZELDA) :
           Calls("can_transition_to", t,
                 Outcome(Self, Bool(zelda_can_transition_to(Self, t)),
                         FALSE, <<>>))

FlappyIsValidTransition ==
    /\ game = FLAPPY
    /\ \E t \in GameState(FLAPPY) :
           Calls("is_valid_transition", t,
                 Outcome(Self, Bool(flappy_is_valid_transition(Self, t)),
                         FALSE, <<>>))

FlappyIsState ==
    /\ game = FLAPPY
    /\ \E s \in GameState(FLAPPY) :
           Calls("is_state", s, flappy_is_state(Self, s))

GetStateName ==
    /\ game \in Games
    /\ Calls("get_state_name", NONE, get_state_name(Self))

\* The caller of get_valid_transitions appends a value to the list it was
\* handed, or clears it; a list object that the table holds changes there too.
ReturnedListMutated ==
    /\ last.op = "get_valid_transitions"
    /\ \E items \in {<<>>} \cup
                     {Append(last.ret.items, s) : s \in GameState(game)} :
           /\ last' = [last EXCEPT
                           !.op = "list_mutated", !.pre = Self,
                           !.ret = ListObject(items, last.ret.kept_under)]
           /\ transition_table' =
                  IF last.ret.kept_under = NONE
                  THEN transition_table
                  ELSE [transition_table EXCEPT
                            ![last.ret.kept_under] = items]
    /\ UNCHANGED <<game, current_state, previous_state, state_history,
                   enter_callbacks, exit_callbacks, budget, scope, copies,
                   owner>>

\* The three managers with one callback registered on leaving MENU or on
\* entering PLAYING, queried between the calls that change them.
QueryScope ==
    [enter_states |-> {PLAYING}, exit_states |-> {MENU}, callbacks |-> {"E"}]

InitQueries ==
    /\ game \in Games
    /\ InitWith(MENU, QueryMaxChanges, QueryMaxCallbacks, QueryScope)

NextQueries ==
    \/ AddEnterCallback
    \/ AddExitCallback
    \/ TextChangeState
    \/ ZeldaChangeState
    \/ FlappyChangeState
    \/ TextCanTransitionTo
    \/ TextIsInState
    \/ TextGetValidTransitions
    \/ TextGetStats
    \/ ZeldaCanTransitionTo
    \/ FlappyIsValidTransition
    \/ FlappyIsState
    \/ GetStateName
    \/ ReturnedListMutated

SpecQueries == InitQueries /\ [][NextQueries]_vars

\* ------------------------------------------------------------------ claims
\* t is listed in valid_transitions[s] of game g.
IsTarget(g, s, t) == \E i \in 1..Len(valid_transitions(g)[s]) :
                         valid_transitions(g)[s][i] = t

NoCallbackRaises(m) ==
    \A s \in DOMAIN m.enter_callbacks :
        /\ \A i \in 1..Len(m.enter_callbacks[s]) : ~Raises(m.enter_callbacks[s][i])
        /\ \A i \in 1..Len(m.exit_callbacks[s]) : ~Raises(m.exit_callbacks[s][i])

SomeRaises(callbacks) == \E i \in 1..Len(callbacks) : Raises(callbacks[i])

\* The callbacks invoked by the last call, in order.
Invoked == [i \in 1..Len(last.calls) |-> last.calls[i].cb]

\* The invocations of the last call are those of the list exits, each one
\* reading current_state = S, followed by those of the list enters, each one
\* reading current_state = T and previous_state = S.
RanExitsThenEnters(exits, enters, S, T) ==
    /\ Len(last.calls) = Len(exits) + Len(enters)
    /\ \A i \in 1..Len(last.calls) :
          IF i <= Len(exits)
          THEN /\ last.calls[i].kind = "exit"
               /\ last.calls[i].cb = exits[i]
               /\ last.calls[i].current_state = S
          ELSE /\ last.calls[i].kind = "enter"
               /\ last.calls[i].cb = enters[i - Len(exits)]
               /\ last.calls[i].current_state = T
               /\ last.calls[i].previous_state = S

\* C1: in the three managers, when no registered callback raises,
\* change_state(T) called in state S returns True if and only if T is listed
\* in valid_transitions[S] (and returns False otherwise); in particular
\* change_state(PAUSED) called in MENU returns False and leaves the manager in
\* MENU.
C1_ReturnsTrueIffListed ==
    (last.op = "change_state" /\ NoCallbackRaises(last.pre)) =>
        /\ last.ret = (IF IsTarget(game, last.pre.current_state, last.target)
                       THEN True ELSE False)
        /\ (last.pre.current_state = MENU /\ last.target = PAUSED) =>
               (last.ret = False /\ current_state = MENU)

\* MENU -> PLAYING -> MENU were made, and change_state(PAUSED) has returned.
C1_Witness ==
    /\ last.op = "change_state" /\ last.target = PAUSED
    /\ NoCallbackRaises(last.pre)
    /\ last.pre.current_state = MENU /\ last.pre.previous_state = PLAYING
    /\ Len(last.pre.state_history) = 3
    /\ last.ret = False /\ current_state = MENU

\* C2: in the three managers, when change_state(T) called in state S has
\* returned True, current_state is T and previous_state is S.
C2_SuccessSetsCurrentAndPrevious ==
    (last.op = "change_state" /\ last.ret = True) =>
        /\ current_state = last.target
        /\ previous_state = last.pre.current_state

C2_Witness ==
    /\ last.op = "change_state" /\ last.ret = True
    /\ last.pre.current_state = PLAYING /\ last.pre.previous_state = MENU
    /\ last.target = PAUSED

\* C3: in the three managers, change_state(T) with T not listed in
\* valid_transitions[current_state] returns False, invokes no callback and
\* leaves current_state, previous_state and state_history as they were.
C3_RejectedChangesNothing ==
    (last.op = "change_state"
     /\ ~IsTarget(game, last.pre.current_state, last.target)) =>
        /\ last.ret = False
        /\ ~last.raised
        /\ last.calls = <<>>
        /\ current_state = last.pre.current_state
        /\ previous_state = last.pre.previous_state
        /\ state_history = last.pre.state_history

\* A rejected change_state(PLAYING) in PLAYING, with an exit callback
\* registered on PLAYING.
C3_Witness ==
    /\ last.op = "change_state" /\ last.ret = False
    /\ last.pre.current_state = PLAYING /\ last.target = PLAYING
    /\ last.pre.exit_callbacks[PLAYING] # <<>>

\* C4: in the three managers, during a change_state(T) from S that returns
\* True, every exit callback of S is invoked reading current_state = S, every
\* enter callback of T is invoked reading current_state = T and
\* previous_state = S, and all the exit callbacks come before any enter
\* callback; with the one exit callback E on PLAYING and the one enter
\* callback N on PAUSED, change_state(PAUSED) from PLAYING invokes exactly
\* E, N in that order.
C4_ExitBeforeChangeEnterAfter ==
    (last.op = "change_state" /\ last.ret = True) =>
        /\ RanExitsThenEnters(last.pre.exit_callbacks[last.pre.current_state],
                              last.pre.enter_callbacks[last.target],
                              last.pre.current_state, last.target)
        /\ (/\ last.pre.current_state = PLAYING /\ last.target = PAUSED
            /\ last.pre.exit_callbacks[PLAYING] = <<"E">>
            /\ last.pre.enter_callbacks[PAUSED] = <<"N">>) =>
               Invoked = <<"E", "N">>

C4_Witness ==
    /\ last.op = "change_state" /\ last.ret = True
    /\ last.pre.current_state = PLAYING /\ last.target = PAUSED
    /\ last.pre.exit_callbacks[PLAYING] = <<"E">>
    /\ last.pre.enter_callbacks[PAUSED] = <<"N">>
    /\ Invoked = <<"E", "N">>

\* The history after one record (from S, to T) is appended to before and the
\* list is cut to HistoryKeep once longer than HistoryCap.
OneRecordAppended(before, after, S, T) ==
    /\ after # <<>>
    /\ after[Len(after)].from_state = S
    /\ after[Len(after)].to_state = T
    /\ SubSeq(after, 1, Len(after) - 1) =
           (IF Len(before) + 1 > HistoryCap
            THEN LastN(before, HistoryKeep - 1)
            ELSE before)

\* C5: in the text_adventure and zelda_2d managers, when an exit callback of
\* the current state S or an enter callback of a listed target T raises an
\* Exception during change_state(T), the other callbacks of both lists are
\* still invoked, the change completes (current_state = T, previous_state =
\* S, one history record appended), the call returns True and no exception
\* leaves it.
C5_RaisingCallbackIsIsolated ==
    (/\ game \in {TEXT, ZELDA}
     /\ last.op = "change_state"
     /\ IsTarget(game, last.pre.current_state, last.target)
     /\ \/ SomeRaises(last.pre.exit_callbacks[last.pre.current_state])
        \/ SomeRaises(last.pre.enter_callbacks[last.target])) =>
        /\ RanExitsThenEnters(last.pre.exit_callbacks[last.pre.current_state],
                              last.pre.enter_callbacks[last.target],
                              last.pre.current_state, last.target)
        /\ current_state = last.target
        /\ previous_state = last.pre.current_state
        /\ OneRecordAppended(last.pre.state_history, state_history,
                             last.pre.current_state, last.target)
        /\ last.ret = True
        /\ ~last.raised

\* The exit list of PLAYING is X, E: X raises and E is still invoked.
C5_Witness ==
    /\ game \in {TEXT, ZELDA}
    /\ last.op = "change_state" /\ last.ret = True
    /\ last.pre.current_state = PLAYING /\ last.target = PAUSED
    /\ last.pre.exit_callbacks[PLAYING] = <<"X", "E">>
    /\ Invoked = <<"X", "E">>

\* C6: in the flappy_birds manager, when an exit callback of the current
\* state (PLAYING, on the way to PAUSED) or an enter callback of the listed
\* target raises during change_state, the change still completes
\* (current_state is the target), the later callbacks still run and no
\* exception leaves the call.
C6_FlappyRaisingCallbackIsIsolated ==
    (/\ game = FLAPPY
     /\ last.op = "change_state"
     /\ IsTarget(game, last.pre.current_state, last.target)
     /\ \/ SomeRaises(last.pre.exit_callbacks[last.pre.current_state])
        \/ SomeRaises(last.pre.enter_callbacks[last.target])) =>
        /\ current_state = last.target
        /\ RanExitsThenEnters(last.pre.exit_callbacks[last.pre.current_state],
                              last.pre.enter_callbacks[last.target],
                              last.pre.current_state, last.target)
        /\ ~last.raised

\* C7: in the text_adventure manager, the history record appended by a
\* change_state(T) from S that returns True has from_state = S, to_state = T
\* and transition_valid = True.
C7_RecordOfSuccessIsValid ==
    (game = TEXT /\ last.op = "change_state" /\ last.ret = True) =>
        /\ state_history # <<>>
        /\ state_history[Len(state_history)].from_state = last.pre.current_state
        /\ state_history[Len(state_history)].to_state = last.target
        /\ state_history[Len(state_history)].transition_valid = TRUE

\* C8: in the text_adventure manager, reset_to_menu() called in any state
\* returns True and leaves current_state = MENU and previous_state = the
\* state it was called in, whether or not MENU is listed for that state.
C8_TextResetToMenuAlwaysResets ==
    (game = TEXT /\ last.op = "reset_to_menu") =>
        /\ last.ret = True
        /\ current_state = MENU
        /\ previous_state = last.pre.current_state

\* reset_to_menu() has been called in QUIT, which lists no target.
C8_Witness ==
    /\ game = TEXT /\ last.op = "reset_to_menu"
    /\ last.pre.current_state = QUIT
    /\ ~IsTarget(TEXT, QUIT, MENU)
    /\ current_state = MENU /\ previous_state = QUIT

\* C9: in the zelda_2d manager, reset_to_menu() called in any state, QUIT and
\* INVENTORY included, leaves current_state = MENU.
C9_ZeldaResetToMenuAlwaysResets ==
    (game = ZELDA /\ last.op = "reset_to_menu") => current_state = MENU

\* C10: in the text_adventure and zelda_2d managers, while current_state is
\* QUIT can_transition_to(T) is False for every T, QUIT included, and a
\* change_state(T) called in QUIT returns False and leaves current_state =
\* QUIT.
C10_QuitAcceptsNoTarget ==
    /\ (game = TEXT /\ current_state = QUIT) =>
           \A t \in GameState(TEXT) : ~text_can_transition_to(Self, t)
    /\ (game = ZELDA /\ current_state = QUIT) =>
           \A t \in GameState(ZELDA) : ~zelda_can_transition_to(Self, t)
    /\ (/\ game \in {TEXT, ZELDA}
        /\ last.op = "change_state"
        /\ last.pre.current_state = QUIT) =>
           (last.ret = False /\ current_state = QUIT)

\* change_state(QUIT) has been called in QUIT.
C10_Witness ==
    /\ game \in {TEXT, ZELDA}
    /\ last.op = "change_state"
    /\ last.pre.current_state = QUIT /\ last.target = QUIT
    /\ last.ret = False /\ current_state = QUIT

\* C11 as claimed: in the text_adventure manager no operation leaves QUIT.
C11_QuitIsSinkUnderEveryOperation ==
    [][(game = TEXT /\ current_state = QUIT) => current_state' = QUIT]_vars

\* C11, amended: in the text_adventure manager, once current_state is QUIT
\* it stays QUIT under change_state, add_enter_callback, add_exit_callback
\* and remove_callback; reset_to_menu is the one operation that leaves QUIT,
\* and it leaves it for MENU.
C11_QuitIsSinkButForReset ==
    [][(game = TEXT /\ current_state = QUIT) =>
           current_state' = (IF last'.op = "reset_to_menu" THEN MENU ELSE QUIT)]_vars

\* A callback has been removed while the manager is in QUIT.
C11_Witness ==
    /\ game = TEXT
    /\ last.op = "remove_callback" /\ last.ret = True
    /\ last.pre.current_state = QUIT /\ current_state = QUIT

\* seq with its element at position i left out.
Without(seq, i) ==
    [k \in 1..(Len(seq) - 1) |-> IF k < i THEN seq[k] ELSE seq[k + 1]]

\* C17: in the text_adventure manager, remove_callback(state, fn, kind)
\* removes only the first occurrence of fn from the list of that kind for
\* that state and returns True, every other registered callback keeping its
\* place in order; when fn is not in that list it returns False and both
\* callback lists are unchanged.  current_state, previous_state and
\* state_history are never changed by it.
C17_RemoveCallbackRemovesFirst ==
    (last.op = "remove_callback") =>
        LET before == IF last.callback_type = "enter"
                      THEN last.pre.enter_callbacks[last.target]
                      ELSE last.pre.exit_callbacks[last.target]
            after == IF last.callback_type = "enter"
                     THEN enter_callbacks[last.target]
                     ELSE exit_callbacks[last.target]
            found == \E i \in 1..Len(before) : before[i] = last.callback
        IN /\ last.ret = (IF found THEN True ELSE False)
           /\ found =>
                 \E i \in 1..Len(before) :
                     /\ before[i] = last.callback
                     /\ \A j \in 1..(i - 1) : before[j] # last.callback
                     /\ after = Without(before, i)
           /\ ~found => after = before
           /\ \A s \in DOMAIN enter_callbacks :
                 /\ (s # last.target \/ last.callback_type # "enter") =>
                        enter_callbacks[s] = last.pre.enter_callbacks[s]
                 /\ (s # last.target \/ last.callback_type = "enter") =>
                        exit_callbacks[s] = last.pre.exit_callbacks[s]
           /\ current_state = last.pre.current_state
           /\ previous_state = last.pre.previous_state
           /\ state_history = last.pre.state_history

\* E has been removed from the enter list E, N, E of MENU, which is now N, E.
C17_Witness ==
    /\ last.op = "remove_callback" /\ last.ret = True
    /\ last.callback = "E" /\ last.callback_type = "enter"
    /\ last.pre.enter_callbacks[MENU] = <<"E", "N", "E">>
    /\ enter_callbacks[MENU] = <<"N", "E">>

\* C12: in the text_adventure and zelda_2d managers state_history never holds
\* more than HistoryCap (100) records; an append that makes it 101 long cuts
\* it to its HistoryKeep (50) most recent records in their order: the new
\* record last, before it the 49 records that were last before the call.
C12_HistoryIsCapped ==
    (game \in {TEXT, ZELDA}) =>
        /\ Len(state_history) <= HistoryCap
        /\ (/\ last.op \in {"change_state", "reset_to_menu"}
            /\ state_history # last.pre.state_history
            /\ Len(last.pre.state_history) = HistoryCap) =>
               /\ Len(state_history) = HistoryKeep
               /\ \A i \in 1..(HistoryKeep - 1) :
                      state_history[i] =
                          last.pre.state_history[HistoryCap - HistoryKeep + 1 + i]
               /\ state_history[HistoryKeep].from_state = last.pre.current_state
               /\ state_history[HistoryKeep].to_state = current_state

\* A change made with HistoryCap records has left HistoryKeep records.
C12_Witness ==
    /\ game \in {TEXT, ZELDA}
    /\ last.op = "change_state" /\ last.ret = True
    /\ Len(last.pre.state_history) = HistoryCap
    /\ Len(state_history) = HistoryKeep

C13_WitnessRegisteredTwice ==
    /\ last.op = "change_state" /\ last.ret = True
    /\ last.target = PAUSED
    /\ enter_callbacks[PAUSED] = <<"E", "E">>
    /\ Invoked = <<"E", "E">>

\* C14: right after StateManager(I) is constructed, current_state is I,
\* previous_state is None and state_history holds exactly one entry, that of
\* I: in text_adventure the record from None to I with transition_valid True,
\* in zelda_2d the record from None to I, in flappy_birds the element I.
C14_ConstructedWithOneEntry ==
    (last.op = "__init__") =>
        /\ current_state = last.target
        /\ previous_state = NONE
        /\ state_history =
               CASE game = TEXT ->
                        <<[from_state |-> NONE, to_state |-> last.target,
                           transition_valid |-> TRUE]>>
                 [] game = ZELDA ->
                        <<[from_state |-> NONE, to_state |-> last.target]>>
                 [] game = FLAPPY -> <<last.target>>

\* StateManager(GameState.INVENTORY) of text_adventure, just constructed.
C14_Witness ==
    /\ last.op = "__init__" /\ last.target = INVENTORY
    /\ game = TEXT
    /\ current_state = INVENTORY
    /\ Len(state_history) = 1

\* C15: in the text_adventure manager, reset_to_menu() called in state S
\* invokes the exit callbacks of S in registration order if and only if S is
\* not MENU, each one before the state and the history change; then
\* current_state is MENU, previous_state is S and exactly one record (from S,
\* to MENU) is appended; then the enter callbacks of MENU are invoked in
\* registration order, reading the new state and the appended record, also
\* when S is MENU.
C15_ResetRunsExitsUnlessInMenu ==
    (game = TEXT /\ last.op = "reset_to_menu") =>
        LET S == last.pre.current_state
        IN /\ RanExitsThenEnters(
                  IF S # MENU THEN last.pre.exit_callbacks[S] ELSE <<>>,
                  last.pre.enter_callbacks[MENU], S, MENU)
           /\ \A i \in 1..Len(last.calls) :
                  last.calls[i].history_len =
                      (IF last.calls[i].kind = "exit"
                       THEN Len(last.pre.state_history)
                       ELSE Len(state_history))
           /\ current_state = MENU
           /\ previous_state = S
           /\ OneRecordAppended(last.pre.state_history, state_history, S, MENU)

\* reset_to_menu() in MENU, with callbacks on leaving and on entering MENU:
\* only the enter callback has run.
C15_Witness ==
    /\ game = TEXT /\ last.op = "reset_to_menu"
    /\ last.pre.current_state = MENU
    /\ last.pre.exit_callbacks[MENU] = <<"X">>
    /\ last.pre.enter_callbacks[MENU] = <<"E">>
    /\ Invoked = <<"E">>

\* reset_to_menu() in PLAYING, with a raising callback on leaving PLAYING and
\* a callback on entering MENU: both have run, the exit callback first.
C15_WitnessOutsideMenu ==
    /\ game = TEXT /\ last.op = "reset_to_menu"
    /\ last.pre.current_state = PLAYING
    /\ last.pre.exit_callbacks[PLAYING] = <<"X">>
    /\ last.pre.enter_callbacks[MENU] = <<"E">>
    /\ Invoked = <<"X", "E">>

\* C16 as stated: in the text_adventure and zelda_2d managers every call of
\* change_state(T) in state S, accepted or rejected, appends one record (from
\* S, to T) to state_history.
C16_EveryAttemptIsRecorded ==
    (game \in {TEXT, ZELDA} /\ last.op = "change_state") =>
        OneRecordAppended(last.pre.state_history, state_history,
                          last.pre.current_state, last.target)

\* C16: in the text_adventure and zelda_2d managers a call of change_state(T)
\* in state S appends exactly one record (from S, to T) to state_history when
\* T is listed in valid_transitions[S], and leaves state_history as it was
\* when T is not listed: rejected attempts are not recorded.
C16_OnlyAcceptedIsRecorded ==
    (game \in {TEXT, ZELDA} /\ last.op = "change_state") =>
        IF IsTarget(game, last.pre.current_state, last.target)
        THEN OneRecordAppended(last.pre.state_history, state_history,
                               last.pre.current_state, last.target)
        ELSE state_history = last.pre.state_history

\* zelda_2d: MENU -> PLAYING recorded, then change_state(PLAYING) rejected with
\* the two records left as they were.
C16_Witness ==
    /\ game = ZELDA
    /\ last.op = "change_state" /\ last.ret = False
    /\ last.pre.current_state = PLAYING /\ last.target = PLAYING
    /\ Len(last.pre.state_history) = 2
    /\ state_history = last.pre.state_history

\* C18: can_transition_to / is_valid_transition, is_in_state / is_state,
\* get_valid_transitions, get_state_name and get_stats invoke no callback,
\* raise nothing and leave current_state, previous_state, state_history, the
\* callback lists and valid_transitions as they were; the list returned by
\* get_valid_transitions is not a list of the table, so that appending to it
\* or clearing it leaves the manager, and its table as constructed, unchanged.
QueryOperations ==
    {"can_transition_to", "is_valid_transition", "is_in_state", "is_state",
     "get_valid_transitions", "get_state_name", "get_stats"}

C18_QueriesArePure ==
    /\ (last.op \in QueryOperations) =>
           /\ Self = last.pre
           /\ last.calls = <<>>
           /\ ~last.raised
    /\ (last.op = "list_mutated") => Self = last.pre
    /\ transition_table = valid_transitions(game)

\* text_adventure in PLAYING with a callback registered: the list returned by
\* get_valid_transitions was cleared and the table still lists five targets.
C18_Witness ==
    /\ game = TEXT
    /\ last.op = "list_mutated"
    /\ current_state = PLAYING
    /\ enter_callbacks[PLAYING] = <<"E">>
    /\ last.ret.items = <<>>
    /\ Len(transition_table[PLAYING]) = 5

\* The callbacks a call has invoked, in order, each with its kind.
InvokedBy(calls) ==
    [i \in 1..Len(calls) |-> <<calls[i].cb, calls[i].kind>>]

\* C19: the three managers, constructed in MENU and given the same
\* registrations (raising callbacks included) and the same change_state calls
\* over the states and edges they share, agree after every call on the value
\* returned, on current_state and previous_state, and on the sequence of
\* callbacks invoked.
C19_CopiesAgree ==
    \A g \in DOMAIN copies :
        /\ copies[g].ret = last.ret
        /\ copies[g].raised = last.raised
        /\ copies[g].m.current_state = current_state
        /\ copies[g].m.previous_state = previous_state
        /\ InvokedBy(copies[g].calls) = InvokedBy(last.calls)

\* The same agreement, in the behaviours where no registered callback raises.
C19_CopiesAgreeWhenNoneRaises ==
    NoCallbackRaises(Self) => C19_CopiesAgree

\* zelda_2d always agrees with text_adventure, raising callbacks included.
C19_ZeldaAgreesWithText ==
    \A g \in DOMAIN copies \cap {ZELDA} :
        /\ copies[g].ret = last.ret
        /\ copies[g].raised = last.raised
        /\ copies[g].m.current_state = current_state
        /\ copies[g].m.previous_state = previous_state
        /\ InvokedBy(copies[g].calls) = InvokedBy(last.calls)

\* C20: in the text_adventure Game and the zelda_2d Game, whenever the manager
\* comes to be in QUIT running is False; while the manager is in QUIT the
\* main loop begins no iteration; and running, once False, stays False.
C20_QuitStopsTheLoop ==
    [][/\ (current_state' = QUIT) => ~owner'.running
       /\ (current_state = QUIT) => owner'.iterations = owner.iterations
       /\ (~owner.running) => ~owner'.running]_vars

\* text_adventure: "new" in MENU, then "quit" in PLAYING: the manager is in
\* QUIT after two iterations and running is False.
C20_Witness ==
    /\ game = TEXT
    /\ last.op = "_game_loop_iteration" /\ last.target = "quit"
    /\ last.pre.current_state = PLAYING
    /\ current_state = QUIT
    /\ owner.iterations = 2
    /\ ~owner.running

\* zelda_2d: the scene's update has returned QUIT during an iteration of run.
C20_WitnessZelda ==
    /\ game = ZELDA
    /\ last.op = "run" /\ last.ret = True
    /\ current_state = QUIT
    /\ owner.iterations >= 1
    /\ ~owner.running

\* C21: in the flappy_birds manager state_history never holds more than
\* FlappyHistoryCap (10) entries and its last entry is current_state; a call
\* of change_state, go_back or handle_common_events that enters a state puts
\* it at the end, dropping the oldest entry when there were already 10, and
\* reset leaves the one entry MENU.
C21_FlappyHistoryIsCapped ==
    (game = FLAPPY) =>
        /\ Len(state_history) <= FlappyHistoryCap
        /\ state_history # <<>>
        /\ state_history[Len(state_history)] = current_state
        /\ (/\ last.op \in {"change_state", "go_back", "handle_common_events"}
            /\ state_history # last.pre.state_history) =>
               state_history =
                   (IF Len(last.pre.state_history) = FlappyHistoryCap
                    THEN Tail(last.pre.state_history)
                    ELSE last.pre.state_history) \o <<current_state>>
        /\ (last.op = "reset") => state_history = <<MENU>>

\* go_back() made with 10 entries has left 10, the oldest one dropped.
C21_Witness ==
    /\ game = FLAPPY
    /\ last.op = "go_back" /\ last.ret = True
    /\ Len(last.pre.state_history) = FlappyHistoryCap
    /\ Len(state_history) = FlappyHistoryCap
    /\ state_history[1] = last.pre.state_history[2]

\* C23: in the flappy_birds manager, go_back() called with current_state S and
\* previous_state P returns True exactly when P is not None and P is listed in
\* valid_transitions[S]; it then leaves current_state P and previous_state S,
\* with P appended to the history and the exit callbacks of S and the enter
\* callbacks of P invoked, and a go_back() made right after it returns True
\* again and gives back the pair (S, P); otherwise it returns False, invokes
\* nothing and changes nothing.
C23_GoBackReturnsTrueWhenPossible ==
    (game = FLAPPY /\ last.op = "go_back") =>
        LET S == last.pre.current_state
            P == last.pre.previous_state
            possible == P # NONE /\ IsTarget(FLAPPY, S, P)
            again == flappy_go_back(Self)
        IN /\ (last.ret = True) <=> possible
           /\ possible =>
                  /\ current_state = P
                  /\ previous_state = S
                  /\ state_history =
                         (IF Len(last.pre.state_history) = FlappyHistoryCap
                          THEN Tail(last.pre.state_history)
                          ELSE last.pre.state_history) \o <<P>>
                  /\ Invoked = last.pre.exit_callbacks[S]
                                   \o last.pre.enter_callbacks[P]
                  /\ again.ret = True
                  /\ again.m.current_state = S
                  /\ again.m.previous_state = P
           /\ (~possible) =>
                  /\ last.ret = False
                  /\ last.calls = <<>>
                  /\ Self = last.pre

\* The same, in the behaviours where no registered callback raises.
C23_GoBackWhenNoneRaises ==
    NoCallbackRaises(Self) => C23_GoBackReturnsTrueWhenPossible

\* go_back() from PAUSED to PLAYING, with a callback on leaving PAUSED.
C23_Witness ==
    /\ game = FLAPPY
    /\ last.op = "go_back" /\ last.ret = True
    /\ last.pre.current_state = PAUSED /\ current_state = PLAYING
    /\ previous_state = PAUSED
    /\ Invoked = <<"E">>

\* go_back() in MENU, entered from PAUSED: MENU -> PAUSED is no edge, nothing
\* happens.
C23_WitnessNoEdgeBack ==
    /\ game = FLAPPY
    /\ last.op = "go_back" /\ last.ret = False
    /\ last.pre.current_state = MENU /\ last.pre.previous_state = PAUSED
    /\ Self = last.pre

\* The state a key asks for, as the claim lists them (None: no change asked).
Requested(S, event) ==
    IF event.type # KEYDOWN THEN NONE
    ELSE IF event.key = K_ESCAPE
         THEN CASE S = PLAYING -> PAUSED
                [] S = PAUSED -> PLAYING
                [] S \in {SETTINGS, GAME_OVER} -> MENU
                [] OTHER -> NONE
    ELSE IF event.key = K_p
         THEN CASE S = PLAYING -> PAUSED
                [] S = PAUSED -> PLAYING
                [] OTHER -> NONE
    ELSE NONE

\* C24: in the flappy_birds manager, handle_common_events returns True exactly
\* when it changed the state: an ESC key-down moves PLAYING to PAUSED, PAUSED
\* to PLAYING and SETTINGS or GAME_OVER to MENU, a P key-down moves PLAYING to
\* PAUSED and PAUSED to PLAYING, every transition it asks for is an edge of the
\* table, and for every other event or state it returns False with
\* current_state, previous_state and state_history unchanged.
C24_HandledExactlyWhenChanged ==
    (game = FLAPPY /\ last.op = "handle_common_events") =>
        LET S == last.pre.current_state
            want == Requested(S, last.target)
        IN /\ (last.ret = True) <=> (current_state # S)
           /\ (want # NONE) =>
                  /\ IsTarget(FLAPPY, S, want)
                  /\ last.ret = True
                  /\ current_state = want
                  /\ previous_state = S
           /\ (want = NONE) =>
                  /\ last.ret = False
                  /\ current_state = S
                  /\ previous_state = last.pre.previous_state
                  /\ state_history = last.pre.state_history

\* The same, in the behaviours where no registered callback raises.
C24_HandledWhenNoneRaises ==
    NoCallbackRaises(Self) => C24_HandledExactlyWhenChanged

\* ESC in GAME_OVER leads to MENU, whose enter callback is invoked.
C24_Witness ==
    /\ game = FLAPPY
    /\ last.op = "handle_common_events" /\ last.ret = True
    /\ last.target = [type |-> KEYDOWN, key |-> K_ESCAPE]
    /\ last.pre.current_state = GAME_OVER /\ current_state = MENU
    /\ Invoked = <<"E">>

\* P in PLAYING pauses.
C24_WitnessPause ==
    /\ game = FLAPPY
    /\ last.op = "handle_common_events" /\ last.ret = True
    /\ last.target = [type |-> KEYDOWN, key |-> K_p]
    /\ last.pre.current_state = PLAYING /\ current_state = PAUSED

\* ESC in MENU is not handled.
C24_WitnessNotHandled ==
    /\ game = FLAPPY
    /\ last.op = "handle_common_events" /\ last.ret = False
    /\ last.target = [type |-> KEYDOWN, key |-> K_ESCAPE]
    /\ last.pre.current_state = MENU
    /\ Self = last.pre

\* C25: in the flappy_birds manager, reset() returns the manager to its initial
\* state from any state: afterwards current_state is MENU, previous_state is
\* None and state_history is [MENU], exactly as after StateManager(MENU); it
\* invokes no enter or exit callback and leaves the registered callback lists
\* and the transition table unchanged.
C25_ResetIsAsConstructed ==
    (game = FLAPPY /\ last.op = "reset") =>
        LET fresh == flappy_init(MENU)
        IN /\ current_state = MENU
           /\ previous_state = NONE
           /\ state_history = <<MENU>>
           /\ current_state = fresh.current_state
           /\ previous_state = fresh.previous_state
           /\ state_history = fresh.state_history
           /\ last.calls = <<>>
           /\ ~last.raised
           /\ enter_callbacks = last.pre.enter_callbacks
           /\ exit_callbacks = last.pre.exit_callbacks
           /\ transition_table = last.pre.valid_transitions

\* reset() in PAUSED, reached from PLAYING, with a callback waiting on leaving
\* PAUSED and one on entering MENU: neither is invoked, both stay registered.
C25_Witness ==
    /\ game = FLAPPY
    /\ last.op = "reset"
    /\ last.pre.current_state = PAUSED /\ last.pre.previous_state = PLAYING
    /\ Len(last.pre.state_history) > 1
    /\ exit_callbacks[PAUSED] # <<>>
    /\ enter_callbacks[MENU] # <<>>
    /\ current_state = MENU

\* C29: in the zelda_2d and flappy_birds managers, with callbacks that do not
\* call back into the manager, after any sequence of change_state, go_back,
\* reset and reset_to_menu calls: whenever previous_state is not None,
\* current_state is listed in valid_transitions[previous_state].
C29_LastStepIsAnEdge ==
    (game \in EdgeGames /\ previous_state # NONE) =>
        /\ IsTarget(game, previous_state, current_state)
        /\ \E i \in 1..Len(transition_table[previous_state]) :
               transition_table[previous_state][i] = current_state

\* zelda_2d: reset_to_menu in INVENTORY is rejected and the pair stays
\* (PLAYING, INVENTORY).
C29_Witness ==
    /\ game = ZELDA
    /\ last.op = "reset_to_menu"
    /\ previous_state = PLAYING /\ current_state = INVENTORY

\* flappy_birds: go_back from GAME_OVER to PLAYING leaves (GAME_OVER, PLAYING).
C29_WitnessGoBack ==
    /\ game = FLAPPY
    /\ last.op = "go_back" /\ last.ret = True
    /\ previous_state = GAME_OVER /\ current_state = PLAYING

\* flappy_birds: reset leaves no previous state.
C29_WitnessReset ==
    /\ game = FLAPPY
    /\ last.op = "reset"
    /\ last.pre.previous_state # NONE /\ previous_state = NONE

\* C27: in the text_adventure and zelda_2d managers, in every reachable state
\* (after any sequence of change_state and reset_to_menu calls, across history
\* trimming) the last record of state_history has to_state equal to
\* current_state and from_state equal to previous_state (None exactly when
\* previous_state is None), and consecutive records chain: each record's
\* from_state is the to_state of the record before it.
C27_HistoryEndsInCurrentAndChains ==
    (game \in {TEXT, ZELDA}) =>
        LET n == Len(state_history)
        IN /\ n > 0
           /\ state_history[n].to_state = current_state
           /\ state_history[n].from_state = previous_state
           /\ (state_history[n].from_state = NONE) <=> (previous_state = NONE)
           /\ \A i \in 2..n :
                  state_history[i].from_state = state_history[i - 1].to_state

\* A change_state that cut the history to its newest records.
C27_Witness ==
    /\ game \in {TEXT, ZELDA}
    /\ last.op = "change_state" /\ last.ret = True
    /\ Len(last.pre.state_history) = HistoryCap
    /\ Len(state_history) = HistoryKeep
    /\ state_history[1].from_state # NONE

\* text_adventure reset_to_menu in MENU: the record is MENU -> MENU.
C27_WitnessResetInMenu ==
    /\ game = TEXT
    /\ last.op = "reset_to_menu"
    /\ last.pre.current_state = MENU
    /\ previous_state = MENU

\* C30: in each of the three transition tables, every state of the enumeration
\* is reachable from MENU by a chain of valid change_state calls, and from
\* every state other than QUIT a chain of valid change_state calls leads back
\* to MENU; QUIT is the only state with no outgoing edge, and flappy_birds has
\* no such state.
C30_EveryStateOnAWayFromAndToMenu ==
    /\ ReachableFrom(game, {MENU}) = GameState(game)
    /\ \A s \in GameState(game) \ {QUIT} :
           MENU \in ReachableFrom(game, Accepted(game, s))
    /\ \A s \in GameState(game) :
           /\ (Accepted(game, s) = {}) <=> (s = QUIT)
           /\ (transition_table[s] = <<>>) <=> (s = QUIT)
    /\ (game = FLAPPY) => \A s \in GameState(game) : Accepted(game, s) # {}
    /\ current_state \in ReachableFrom(game, {MENU})
    /\ (current_state # QUIT) =>
           MENU \in ReachableFrom(game, Accepted(game, current_state))

\* text_adventure: MENU -> PLAYING -> SAVING -> PLAYING -> MENU.
C30_Witness ==
    /\ game = TEXT
    /\ Len(state_history) = 5
    /\ state_history[3].to_state = SAVING
    /\ current_state = MENU /\ previous_state = PLAYING

\* flappy_birds: MENU -> SETTINGS -> MENU.
C30_WitnessFlappy ==
    /\ game = FLAPPY
    /\ state_history = <<MENU, SETTINGS, MENU>>

\* zelda_2d: QUIT is reached, and every further call is rejected.
C30_WitnessQuit ==
    /\ game = ZELDA
    /\ current_state = QUIT
    /\ last.op = "change_state" /\ last.ret = False
    /\ last.pre.current_state = QUIT

\* The assignments the last change_state made to current_state, in order.
StepsOfLast ==
    change_state_reentered(game, last.pre, last.target, scope.reenters).steps

IsStep(step) == IsTarget(game, step.from, step.to)

\* The newest history entry names the state left (text_adventure, zelda_2d
\* only) and the state entered.
LastEntryDescribes(step) ==
    LET entry == state_history[Len(state_history)]
    IN IF game = FLAPPY
       THEN entry = step.to
       ELSE entry.from_state = step.from /\ entry.to_state = step.to

\* C28: in the three managers the transition table is respected even when
\* callbacks re-enter the manager: if an exit or enter callback itself calls
\* change_state while an outer change_state is in progress, every change of
\* current_state from A to B has B in valid_transitions[A], and after the
\* outer call returned True, previous_state and the last history entry
\* describe the step that produced current_state.
C28_TableRespectedUnderReentry ==
    (last.op = "change_state") =>
        LET steps == StepsOfLast
        IN /\ \A i \in 1..Len(steps) : IsStep(steps[i])
           /\ (last.ret = True) =>
                  LET final == steps[Len(steps)]
                  IN /\ current_state = final.to
                     /\ previous_state = final.from
                     /\ LastEntryDescribes(final)

\* What does hold: the claim, when R is in no exit list.
C28_HoldsWhenOnlyEnterCallbacksReenter ==
    (\A s \in DOMAIN exit_callbacks : "R" \notin Range(exit_callbacks[s])) =>
        C28_TableRespectedUnderReentry

\* With R in no list, the call is the plain change_state.
C28_PlainWithoutReentry ==
    (/\ last.op = "change_state"
     /\ \A s \in DOMAIN exit_callbacks :
            /\ "R" \notin Range(exit_callbacks[s])
            /\ "R" \notin Range(enter_callbacks[s])) =>
        LET plain == change_state(game, last.pre, last.target)
        IN /\ Self = plain.m
           /\ last.ret = plain.ret
           /\ last.calls = plain.calls

\* An exit callback of PLAYING re-entered the manager during
\* change_state(PAUSED), and both calls were accepted.
C28_ReenteredOnExit ==
    /\ last.op = "change_state" /\ last.ret = True
    /\ last.pre.current_state = PLAYING /\ last.target = PAUSED
    /\ Len(StepsOfLast) = 2

\* The enter callback of PAUSED re-entered the manager.
C28_ReenteredOnEnter ==
    /\ last.op = "change_state" /\ last.ret = True
    /\ last.target = PAUSED
    /\ "R" \notin Range(exit_callbacks[PLAYING])
    /\ Len(StepsOfLast) = 2
    /\ current_state # PAUSED

\* The last Game method took the manager from state s to state t.
GameWent(s, t) ==
    /\ game = FLAPPY
    /\ last.op \in {"handle_events", "update"}
    /\ last.ret = True
    /\ last.pre.current_state = s /\ current_state = t

GameSceneReceived == Range(owner.game_scene.received)

\* C22: in the flappy_birds Game, pausing does not exit the gameplay scene: on
\* PLAYING -> PAUSED the GameScene receives pause() and not exit(), and on
\* PAUSED -> PLAYING the same game is resumed (is_paused becomes False) with
\* the score, bird and pipes as they were when paused, the scene being
\* neither re-entered nor reset.
C22_PauseKeepsTheGame ==
    /\ GameWent(PLAYING, PAUSED) =>
           /\ "pause" \in GameSceneReceived
           /\ "exit" \notin GameSceneReceived
    /\ GameWent(PAUSED, PLAYING) =>
           /\ ~owner.game_scene.is_paused
           /\ owner.game_scene.score = last.game_before.game_scene.score
           /\ owner.game_scene.bird = last.game_before.game_scene.bird
           /\ owner.game_scene.pipe_manager =
                  last.game_before.game_scene.pipe_manager
           /\ "enter" \notin GameSceneReceived

\* What the Game does: the scene is exited and then paused, with the game
\* kept; on the way back it is exited again and entered, which starts a new
\* game.
C22_PauseExitsAndResumeRestarts ==
    /\ GameWent(PLAYING, PAUSED) =>
           /\ owner.game_scene.received = <<"exit", "pause">>
           /\ owner.game_scene.is_paused
           /\ owner.game_scene.score = last.game_before.game_scene.score
           /\ owner.game_scene.bird = last.game_before.game_scene.bird
           /\ owner.game_scene.pipe_manager =
                  last.game_before.game_scene.pipe_manager
    /\ GameWent(PAUSED, PLAYING) =>
           /\ owner.game_scene.received = <<"exit", "enter">>
           /\ ~owner.game_scene.is_paused
           /\ owner.game_scene.score = 0
           /\ owner.game_scene.bird = Bird
           /\ owner.game_scene.pipe_manager = PipeManager

\* A game resumed after the bird and the pipes had moved.
C22_ResumedAfterPlay ==
    /\ GameWent(PAUSED, PLAYING)
    /\ last.game_before.game_scene.is_paused
    /\ last.game_before.game_scene.bird.updates > 0
    /\ last.game_before.game_scene.pipe_manager.pipes[1].x < SCREEN_WIDTH

\* The pipes of pm that are off the left edge once moved by dt.
OffScreenAfter(pm, dt) ==
    {i \in 1..Len(pm.pipes) : Pipe_is_off_screen(Pipe_update(pm.pipes[i], dt))}

\* C26: PipeManager.update(dt) returns the number of pipes it removed in that
\* call, the pipes that were off the left edge of the screen (x + width < 0)
\* after being moved, and after it returns the manager holds at least 3
\* pipes.  Stated of every pipe manager a running game holds, and every dt.
C26_UpdateReturnsRemovedCount ==
    (game = FLAPPY /\ owner.current_scene = PLAYING) =>
        \A dt \in Dts :
            LET pm == owner.game_scene.pipe_manager
                r == PipeManager_update(pm, dt)
            IN /\ r.ret = Cardinality(OffScreenAfter(pm, dt))
               /\ Len(r.pm.pipes) >= 3

\* What update does: it returns 0 whatever it removed, and leaves the pipes
\* that are still on the screen, in order, filled up to three.
C26_UpdateReturnsZero ==
    (game = FLAPPY /\ owner.current_scene = PLAYING) =>
        \A dt \in Dts :
            LET pm == owner.game_scene.pipe_manager
                r == PipeManager_update(pm, dt)
                kept == Len(pm.pipes) - Cardinality(OffScreenAfter(pm, dt))
            IN /\ r.ret = 0
               /\ Len(r.pm.pipes) >= 3
               /\ Len(r.pm.pipes) = IF kept < 3 THEN 3 ELSE kept
               /\ \A i \in 1..Len(r.pm.pipes) : ~Pipe_is_off_screen(r.pm.pipes[i])

\* An update of the running game that removed a pipe.
C26_PipeRemoved ==
    /\ game = FLAPPY
    /\ last.op = "update"
    /\ last.game_before.current_scene = PLAYING
    /\ owner.current_scene = PLAYING
    /\ OffScreenAfter(last.game_before.game_scene.pipe_manager, last.target) # {}
    /\ owner.game_scene.bird.updates > last.game_before.game_scene.bird.updates
    /\ \A i \in 1..Len(owner.game_scene.pipe_manager.pipes) :
           owner.game_scene.pipe_manager.pipes[i].x >= SCREEN_WIDTH
====
